---------------------------- MODULE Spec2Model ----------------------------
(***************************************************************************)
(* A model of slog: the X-macro generated record stringifiers of           *)
(* inc/slog/err_gen.h (<Type>_to_str), the hand-written stringifier        *)
(* SpecialFeature_to_str of tests/test_slog.c that the generated code      *)
(* composes with, and the default logfmt line formatter of src/slog.c.     *)
(*                                                                         *)
(* C strings are sequences of one-character strings. A destination buffer  *)
(* of `size` bytes is a sequence of that length, addressed as in C by a    *)
(* base (the "buffer + offset" of a nested call) plus an index counted     *)
(* from 0: the C byte buffer[i] is element base + i + 1 of the sequence.   *)
(***************************************************************************)
EXTENDS Integers, Sequences, FiniteSets, TLC

VARIABLES
    op,            \* the operation that ran last
    type_name,     \* the record type whose stringifier was called
    record,        \* the record passed (NULL or Ptr(value))
    prefix_arg,    \* the name prefix passed (NULL or Ptr(chars))
    dest_null,     \* TRUE when the destination pointer passed was NULL
    capacity,      \* the buffer size passed
    dest,          \* the destination buffer after the call
    result,        \* the int the call returned
    outcome,       \* "returned", or "undefined" when the call had undefined behaviour
    message,       \* format_logfmt: the user message passed (NULL or Ptr(chars))
    kv_pairs,      \* format_logfmt: the KeyValuePair array passed
    allocated,     \* format_logfmt: the size it passed to malloc
    written,       \* format_logfmt: the string it built from buffer[0] on
    fmt_outcome,   \* format_logfmt: "none" before the call; then "returned", "null"
                   \* when malloc failed, or "undefined" after stores past the allocation
    g_current_formatter,   \* the global: NULL or Ptr(name of the formatter)
    g_current_sink,        \* the global: NULL or Ptr(name of the sink)
    g_default_log_stream,  \* the global: NULL or Ptr(name of the stream)
    dispatch_macro,        \* how the program defines LOG_ERROR_DISPATCH_TO_PARSER
    last_init,             \* NULL, or Ptr(arguments of the latest init_logging_system)
    streams,               \* the bytes written to each stream, in order
    flushed,               \* for each stream, how many of its bytes were flushed
    sink_log,              \* the lines handed to a sink so far, in order
    call_log,              \* the calls of a run so far, in order
    heap,                  \* the blocks allocated and not freed
    freed_twice,           \* the blocks passed to free while not allocated
    trace,                 \* what the latest logger operation did, step by step
    call,                  \* the arguments of the latest (or the pending) logger call
    dispatched             \* the result of the latest logger operation

vars == <<op, type_name, record, prefix_arg, dest_null, capacity, dest, result,
          outcome, message, kv_pairs, allocated, written, fmt_outcome,
          g_current_formatter, g_current_sink, g_default_log_stream, dispatch_macro,
          last_init, streams, flushed, sink_log, call_log, heap, freed_twice, trace,
          call, dispatched>>

to_str_vars == <<type_name, record, prefix_arg, dest_null, capacity, dest, result, outcome>>
fmt_vars == <<message, kv_pairs, allocated, written, fmt_outcome>>
globals == <<g_current_formatter, g_current_sink, g_default_log_stream>>
log_vars == <<g_current_formatter, g_current_sink, g_default_log_stream, dispatch_macro,
              last_init, streams, flushed, sink_log, call_log, heap, freed_twice, trace,
              call, dispatched>>

---------------------------------------------------------------------------
(* Values of the C program *)

NULL == [null |-> TRUE]
Ptr(v) == [null |-> FALSE, val |-> v]

NUL == "NUL"          \* the byte '\0'
UNINIT == "UNINIT"    \* a byte of the destination the call never wrote

PRIMITIVE == "PRIMITIVE"
STRUCT == "STRUCT"

Min(a, b) == IF a < b THEN a ELSE b

\* sizeof(field_full_name), sizeof(format_string_buffer) in the generated code
FIELD_FULL_NAME_SIZE == 256
FORMAT_STRING_BUFFER_SIZE == 512
\* the buffers of SpecialFeature_to_str
FULL_FEATURE_PREFIX_SIZE == 256
TEMP_BUFFER_SIZE == 512
ID_NAME_SIZE == 300

\* what snprintf(dst, size, ...) leaves in a local char array of `size` bytes
Truncate(text, size) == SubSeq(text, 1, Min(Len(text), size - 1))

Digit(d) == <<"0", "1", "2", "3", "4", "5", "6", "7", "8", "9">>[d + 1]

RECURSIVE NatToDec(_)
NatToDec(n) == IF n < 10 THEN <<Digit(n)>> ELSE NatToDec(n \div 10) \o <<Digit(n % 10)>>

\* printf's %d
IntToDec(n) == IF n < 0 THEN <<"-">> \o NatToDec(-n) ELSE NatToDec(n)

\* index of the first '%' of a format, 0 when there is none
FirstPercent(fmt) ==
    IF \E i \in 1..Len(fmt) : fmt[i] = "%"
    THEN CHOOSE i \in 1..Len(fmt) : fmt[i] = "%" /\ \A j \in 1..(i - 1) : fmt[j] # "%"
    ELSE 0

\* the text printf produces for a format with one argument: literal bytes are
\* copied, %d renders an int, %s copies the string a char* points to, %p
\* renders the address a pointer holds, %% is a percent sign
RECURSIVE Printf(_, _)
Printf(fmt, arg) ==
    LET i == FirstPercent(fmt) IN
    IF i = 0 \/ i = Len(fmt) THEN fmt
    ELSE SubSeq(fmt, 1, i - 1)
         \o (CASE fmt[i + 1] = "d" -> IntToDec(arg)
               [] fmt[i + 1] = "s" -> arg.val
               [] fmt[i + 1] = "p" -> arg.addr
               [] OTHER -> <<fmt[i + 1]>>)
         \o Printf(SubSeq(fmt, i + 2, Len(fmt)), arg)

\* buffer[i] = c
Poke(mem, i, c) == [mem EXCEPT ![i + 1] = c]

\* the bytes snprintf(mem + at, size, ...) stores for the formatted text: at most
\* size-1 bytes of it and a terminator, nothing when size is 0
SnprintfStore(mem, at, size, text) ==
    IF size = 0 THEN mem
    ELSE LET n == Min(Len(text), size - 1) IN
         SubSeq(mem, 1, at) \o SubSeq(text, 1, n) \o <<NUL>>
         \o SubSeq(mem, at + n + 2, Len(mem))

\* strcpy(mem + at, text)
Strcpy(mem, at, text) ==
    SubSeq(mem, 1, at) \o text \o <<NUL>> \o SubSeq(mem, at + Len(text) + 2, Len(mem))

---------------------------------------------------------------------------
(* The record types: the X-macro field lists of tests/test_slog.c, and one *)
(* three more declarations: Route nests generated stringifiers three       *)
(* levels deep, Badge starts with a field whose type has a hand-written    *)
(* one, Counter has a single field.                                        *)

\* #cname
Stringify(cname) ==
    CASE cname = "x" -> <<"x">>
      [] cname = "y" -> <<"y">>
      [] cname = "start" -> <<"s", "t", "a", "r", "t">>
      [] cname = "end" -> <<"e", "n", "d">>
      [] cname = "label" -> <<"l", "a", "b", "e", "l">>
      [] cname = "feature_id" -> <<"f", "e", "a", "t", "u", "r", "e", "_", "i", "d">>
      [] cname = "feature_name" -> <<"f", "e", "a", "t", "u", "r", "e", "_", "n", "a", "m", "e">>
      [] cname = "product_sku" -> <<"p", "r", "o", "d", "u", "c", "t", "_", "s", "k", "u">>
      [] cname = "main_feature" -> <<"m", "a", "i", "n", "_", "f", "e", "a", "t", "u", "r", "e">>
      [] cname = "product_name" -> <<"p", "r", "o", "d", "u", "c", "t", "_", "n", "a", "m", "e">>
      [] cname = "feature" -> <<"f", "e", "a", "t", "u", "r", "e">>
      [] cname = "path" -> <<"p", "a", "t", "h">>
      [] cname = "hops" -> <<"h", "o", "p", "s">>

X_PARAM(ctype, cname, ckind, struct_type_token, primitive_format_spec) ==
    [ctype |-> ctype, cname |-> cname, ckind |-> ckind,
     struct_type_token |-> struct_type_token,
     primitive_format_spec |-> primitive_format_spec]

fmt_d == <<"%", "d">>
fmt_s == <<"%", "s">>
fmt_NULL == <<>>

POINT_FIELDS ==
    << X_PARAM("int", "x", PRIMITIVE, "_NA_", fmt_d),
       X_PARAM("int", "y", PRIMITIVE, "_NA_", fmt_d) >>

LINE_FIELDS ==
    << X_PARAM("Point", "start", STRUCT, "Point", fmt_NULL),
       X_PARAM("Point", "end", STRUCT, "Point", fmt_NULL),
       X_PARAM("const char*", "label", PRIMITIVE, "_NA_", fmt_s) >>

SPECIAL_FEATURE_FIELDS ==
    << X_PARAM("int", "feature_id", PRIMITIVE, "_NA_", fmt_d),
       X_PARAM("const char*", "feature_name", PRIMITIVE, "_NA_", fmt_s) >>

PRODUCT_FIELDS ==
    << X_PARAM("int", "product_sku", PRIMITIVE, "_NA_", fmt_d),
       X_PARAM("SpecialFeature", "main_feature", STRUCT, "SpecialFeature", fmt_NULL),
       X_PARAM("const char*", "product_name", PRIMITIVE, "_NA_", fmt_s) >>

ROUTE_FIELDS ==
    << X_PARAM("Line", "path", STRUCT, "Line", fmt_NULL),
       X_PARAM("int", "hops", PRIMITIVE, "_NA_", fmt_d) >>

COUNTER_FIELDS ==
    << X_PARAM("int", "hops", PRIMITIVE, "_NA_", fmt_d) >>

BADGE_FIELDS ==
    << X_PARAM("SpecialFeature", "feature", STRUCT, "SpecialFeature", fmt_NULL),
       X_PARAM("const char*", "label", PRIMITIVE, "_NA_", fmt_s) >>

FIELDS_XMACRO_LIST(T) ==
    CASE T = "Point" -> POINT_FIELDS
      [] T = "Line" -> LINE_FIELDS
      [] T = "SpecialFeature" -> SPECIAL_FEATURE_FIELDS
      [] T = "Product" -> PRODUCT_FIELDS
      [] T = "Route" -> ROUTE_FIELDS
      [] T = "Badge" -> BADGE_FIELDS
      [] T = "Counter" -> COUNTER_FIELDS

\* the types declared with DEFINE_STRUCT_AND_TO_STRING
AutoTypes == {"Point", "Line", "Product", "Route", "Badge", "Counter"}
\* the types declared with DEFINE_STRUCT_ONLY, whose _to_str is hand-written
CustomTypes == {"SpecialFeature"}

---------------------------------------------------------------------------
(* The generated stringifier: _DEFINE_TO_STR_INTERNAL and the per-field    *)
(* _XMACRO_FIELD_TO_STRING_LOGIC of inc/slog/err_gen.h.                    *)
(* A call works on mem, the caller's whole destination, at base: the C     *)
(* expression buffer[i] is mem[base + i]. It yields the destination it     *)
(* leaves, its return value, and ub: whether it dereferenced a NULL record.*)

\* a slip that keeps one byte too many in reserve
Remaining_OneLess(buffer_size, offset) ==
    IF buffer_size > offset + 1 THEN buffer_size - offset - 1 ELSE 0

\* (buffer_size > offset ? buffer_size - offset : 0)
Remaining(buffer_size, offset) == IF buffer_size > offset THEN buffer_size - offset ELSE 0

\* a slip that accepts an output as long as the space left, terminator not counted
Truncated_OffByOne(res, remaining) == res < 0 \/ res > remaining

\* a variant that lets a call with no space left count the bytes it would write
Truncated_SizingCall(res, remaining) == res < 0 \/ (remaining > 0 /\ res >= remaining)

\* the truncation test applied to the result of snprintf
Truncated(res, remaining) == res < 0 \/ res >= remaining

\* a variant that discards the partial output of a failing call
TerminateAtOffset_Discard(mem, base, buffer_size, offset) ==
    IF buffer_size > 0 THEN Poke(mem, base, NUL) ELSE mem

\* the defensive termination on a failing field
TerminateAtOffset(mem, base, buffer_size, offset) ==
    IF buffer_size > 0 /\ offset < buffer_size THEN Poke(mem, base + offset, NUL)
    ELSE IF buffer_size > 0 THEN Poke(mem, base + buffer_size - 1, NUL)
    ELSE mem

\* the termination after the last field
FinalTerminate(mem, base, buffer_size, offset) ==
    IF buffer_size > 0 /\ offset < buffer_size THEN Poke(mem, base + offset, NUL)
    ELSE IF buffer_size > 0 /\ offset >= buffer_size THEN Poke(mem, base + buffer_size - 1, NUL)
    ELSE mem

\* a slip that forgets the first-field flag: a separator before every field
Separator_BeforeEveryField(st, base, buffer_size) ==
    IF st.offset < buffer_size
    THEN [st EXCEPT !.mem = Poke(st.mem, base + st.offset, " "),
                    !.offset = st.offset + 1]
    ELSE [st EXCEPT !.mem = IF buffer_size > 0
                            THEN Poke(st.mem, base + buffer_size - 1, NUL)
                            ELSE st.mem,
                    !.returned = TRUE,
                    !.ret = -1]

\* the separator written before every field but the first of this call
Separator(st, base, buffer_size) ==
    IF ~st.first_field_in_struct
    THEN IF st.offset < buffer_size
         THEN [st EXCEPT !.mem = Poke(st.mem, base + st.offset, " "),
                         !.offset = st.offset + 1]
         ELSE [st EXCEPT !.mem = IF buffer_size > 0
                                 THEN Poke(st.mem, base + buffer_size - 1, NUL)
                                 ELSE st.mem,
                         !.returned = TRUE,
                         !.ret = -1]
    ELSE st

\* a slip that joins prefix and field name without the dot
field_full_name_NoDot(prefix, cname) ==
    IF ~prefix.null /\ prefix.val # <<>>
    THEN Truncate(prefix.val \o Stringify(cname), FIELD_FULL_NAME_SIZE)
    ELSE Truncate(Stringify(cname), FIELD_FULL_NAME_SIZE)

\* char field_full_name[256]: "prefix.cname", or "cname" when the prefix is
\* NULL or empty
field_full_name(prefix, cname) ==
    IF ~prefix.null /\ prefix.val # <<>>
    THEN Truncate(prefix.val \o <<".">> \o Stringify(cname), FIELD_FULL_NAME_SIZE)
    ELSE Truncate(Stringify(cname), FIELD_FULL_NAME_SIZE)

\* ckind == PRIMITIVE
PrimitiveField(st, base, buffer_size, value, full_name, fmt_spec) ==
    LET format_string_buffer ==
            Truncate(full_name \o <<"=">> \o fmt_spec, FORMAT_STRING_BUFFER_SIZE)
        text == Printf(format_string_buffer, value)
        remaining == Remaining(buffer_size, st.offset)
        res == Len(text)
        mem1 == SnprintfStore(st.mem, base + st.offset, remaining, text)
    IN  IF Truncated(res, remaining)
        THEN [st EXCEPT !.mem = TerminateAtOffset(mem1, base, buffer_size, st.offset),
                        !.returned = TRUE,
                        !.ret = -1]
        ELSE [st EXCEPT !.mem = mem1, !.offset = st.offset + res]

\* char full_feature_prefix[256]: the prefix, or "" when it is NULL or empty
full_feature_prefix(prefix) ==
    IF ~prefix.null /\ prefix.val # <<>>
    THEN Truncate(prefix.val, FULL_FEATURE_PREFIX_SIZE)
    ELSE <<>>

\* char id_name[300], name_field_name[300]: "prefix.cname", or "cname"
feature_field_name(prefix, cname) ==
    Truncate(full_feature_prefix(prefix)
             \o (IF full_feature_prefix(prefix) = <<>> THEN <<>> ELSE <<".">>)
             \o Stringify(cname),
             ID_NAME_SIZE)

\* the hand-written stringifier of tests/test_slog.c
SpecialFeature_to_str(mem, base, buffer_size, rec, prefix) ==
    IF rec.null
    THEN [mem |-> IF buffer_size > 0 THEN Poke(mem, base, NUL) ELSE mem,
          ret |-> 0, ub |-> FALSE]
    ELSE
    LET id_name == feature_field_name(prefix, "feature_id")
        text1 == id_name \o <<"=">> \o IntToDec(rec.val.feature_id)
                 \o <<" ", "(", "c", "u", "s", "t", "o", "m", "_", "f", "m", "t", ")">>
        len1 == Len(text1)
        name_field_name == feature_field_name(prefix, "feature_name")
        f_name == IF rec.val.feature_name.null
                  THEN <<"n", "u", "l", "l">>
                  ELSE rec.val.feature_name.val
        text2 == <<" ">> \o name_field_name \o <<"=", "\\", "\"">> \o f_name
                 \o <<"\\", "\"">>
                 \o <<" ", "(", "c", "u", "s", "t", "o", "m", "_", "f", "m", "t", ")">>
        len2 == Len(text2)
    IN  IF len1 < 0 \/ len1 >= TEMP_BUFFER_SIZE
        THEN [mem |-> mem, ret |-> -1, ub |-> FALSE]
        ELSE IF len2 < 0 \/ len2 >= TEMP_BUFFER_SIZE - len1
        THEN [mem |-> mem, ret |-> -1, ub |-> FALSE]
        ELSE IF len1 + len2 >= buffer_size
        THEN [mem |-> IF buffer_size > 0
                      THEN Poke(mem, base + buffer_size - 1, NUL)
                      ELSE mem,
              ret |-> -1, ub |-> FALSE]
        ELSE [mem |-> Strcpy(mem, base, text1 \o text2),
              ret |-> len1 + len2, ub |-> FALSE]

\* struct_type_token##_to_str: the stringifier a nested field is bound to
RECURSIVE to_str(_, _, _, _, _, _)

\* a slip that hands the nested stringifier no prefix
StructField_DropsPrefix(st, base, buffer_size, member, full_name, struct_type_token) ==
    LET r == to_str(struct_type_token, st.mem, base + st.offset,
                    Remaining(buffer_size, st.offset), Ptr(member), NULL)
    IN  IF r.ret < 0
        THEN [st EXCEPT !.mem = TerminateAtOffset(r.mem, base, buffer_size, st.offset),
                        !.returned = TRUE,
                        !.ret = -1,
                        !.ub = st.ub \/ r.ub]
        ELSE [st EXCEPT !.mem = r.mem,
                        !.offset = st.offset + r.ret,
                        !.ub = st.ub \/ r.ub]

\* ckind == STRUCT
StructField(st, base, buffer_size, member, full_name, struct_type_token) ==
    LET r == to_str(struct_type_token, st.mem, base + st.offset,
                    Remaining(buffer_size, st.offset), Ptr(member), Ptr(full_name))
    IN  IF r.ret < 0
        THEN [st EXCEPT !.mem = TerminateAtOffset(r.mem, base, buffer_size, st.offset),
                        !.returned = TRUE,
                        !.ret = -1,
                        !.ub = st.ub \/ r.ub]
        ELSE [st EXCEPT !.mem = r.mem,
                        !.offset = st.offset + r.ret,
                        !.ub = st.ub \/ r.ub]

\* one expansion of the per-field macro; a call that already returned, or
\* that read a field through a NULL record, does nothing more
XMACRO_FIELD_TO_STRING_LOGIC(st, base, buffer_size, rec, prefix, f) ==
    IF st.returned THEN st
    ELSE
    LET sep == Separator(st, base, buffer_size)
        st1 == [sep EXCEPT !.first_field_in_struct = FALSE]
        full_name == field_full_name(prefix, f.cname)
    IN  IF sep.returned THEN sep
        ELSE IF rec.null THEN [st1 EXCEPT !.returned = TRUE, !.ub = TRUE]
        ELSE IF f.ckind = PRIMITIVE
        THEN PrimitiveField(st1, base, buffer_size, rec.val[f.cname], full_name,
                            f.primitive_format_spec)
        ELSE StructField(st1, base, buffer_size, rec.val[f.cname], full_name,
                         f.struct_type_token)

\* FIELDS_XMACRO_LIST(_XMACRO_FIELD_TO_STRING_LOGIC): the expansions in
\* declaration order, from field i on
RECURSIVE ExpandFields(_, _, _, _, _, _, _)
ExpandFields(fields, i, st, base, buffer_size, rec, prefix) ==
    IF i > Len(fields) THEN st
    ELSE ExpandFields(fields, i + 1,
                      XMACRO_FIELD_TO_STRING_LOGIC(st, base, buffer_size, rec, prefix,
                                                   fields[i]),
                      base, buffer_size, rec, prefix)

\* a variant that reports a NULL record as an error
NullRecord_Error(mem, base) == [mem |-> Poke(mem, base, NUL), ret |-> -1, ub |-> FALSE]

\* if (s == NULL) { if (buffer_size > 0) { buffer[0] = '\0'; return 0; } }
NullRecord(mem, base) == [mem |-> Poke(mem, base, NUL), ret |-> 0, ub |-> FALSE]

\* a slip that counts the terminator in the return value
ReturnValue_CountsTerminator(offset) == offset + 1

\* what the generated function returns after the last field
ReturnValue(offset) == offset

\* STRUCT_NAME##_to_str
DEFINE_TO_STR_INTERNAL(T, mem, base, buffer_size, rec, prefix) ==
    IF rec.null /\ buffer_size > 0 THEN NullRecord(mem, base)
    ELSE
    LET st0 == [mem |-> mem, offset |-> 0, first_field_in_struct |-> TRUE,
                returned |-> FALSE, ret |-> 0, ub |-> FALSE]
        st == ExpandFields(FIELDS_XMACRO_LIST(T), 1, st0, base, buffer_size, rec, prefix)
    IN  IF st.returned
        THEN [mem |-> st.mem, ret |-> st.ret, ub |-> st.ub]
        ELSE [mem |-> FinalTerminate(st.mem, base, buffer_size, st.offset),
              ret |-> ReturnValue(st.offset), ub |-> st.ub]

to_str(struct_type_token, mem, base, buffer_size, rec, prefix) ==
    IF struct_type_token \in CustomTypes
    THEN SpecialFeature_to_str(mem, base, buffer_size, rec, prefix)
    ELSE DEFINE_TO_STR_INTERNAL(struct_type_token, mem, base, buffer_size, rec, prefix)

---------------------------------------------------------------------------
(* The default formatter: format_logfmt of src/slog.c. A KeyValuePair is a  *)
(* record of two char*, each NULL or Ptr(chars).                           *)

\* strlen of a char* known not to be NULL
strlen(str) == Len(str.val)

\* the pair is rendered: pairs[i].key && pairs[i].value
Rendered(pair) == ~pair.key.null /\ ~pair.value.null

\* the first loop: the bytes reserved for pairs[i..num_pairs-1]
RECURSIVE PairsSize(_, _, _)
PairsSize(pairs, i, num_pairs) ==
    IF i > num_pairs THEN 0
    ELSE (IF Rendered(pairs[i])
          THEN strlen(pairs[i].key) + strlen(pairs[i].value) + 4
          ELSE 0)
         + PairsSize(pairs, i + 1, num_pairs)

\* the size passed to malloc
required_size(user_message, pairs, num_pairs) ==
    (IF ~user_message.null THEN strlen(user_message) ELSE 0)
    + PairsSize(pairs, 1, num_pairs)
    + 1
    + (IF num_pairs > 0 /\ ~user_message.null /\ strlen(user_message) > 0 THEN 1 ELSE 0)

\* the escaping loop: what is appended for one byte of a value
EscapeByte(c) ==
    IF c = "\"" THEN <<"\\", "\"">>
    ELSE IF c = "\\" THEN <<"\\", "\\">>
    ELSE <<c>>

\* the escaping loop over a value
RECURSIVE Escape(_)
Escape(value) ==
    IF value = <<>> THEN <<>> ELSE EscapeByte(Head(value)) \o Escape(Tail(value))

\* a separator that does not look at the last byte of the buffer
PairSeparator_Always(buf) ==
    IF Len(buf) > 0 THEN <<" ">> ELSE <<>>

\* the space appended before a pair: only to a non-empty buffer that does not
\* end in a space already
PairSeparator(buf) ==
    IF Len(buf) > 0 /\ buf[Len(buf)] # " " THEN <<" ">> ELSE <<>>

\* the body of the second loop for one rendered pair: the string in the buffer
\* after it
AppendPair(buf, pair) ==
    buf \o PairSeparator(buf) \o pair.key.val \o <<"=", "\"">>
    \o Escape(pair.value.val) \o <<"\"">>

\* the second loop: the string in the buffer after pairs[i..num_pairs-1]
RECURSIVE AppendPairs(_, _, _, _)
AppendPairs(buf, pairs, i, num_pairs) ==
    IF i > num_pairs THEN buf
    ELSE AppendPairs(IF Rendered(pairs[i]) THEN AppendPair(buf, pairs[i]) ELSE buf,
                     pairs, i + 1, num_pairs)

\* the string format_logfmt builds with strcpy and strcat, and the size of the
\* allocation it builds it in
format_logfmt(user_message, pairs, num_pairs) ==
    [required_size |-> required_size(user_message, pairs, num_pairs),
     buffer |-> AppendPairs(IF ~user_message.null /\ strlen(user_message) > 0
                            THEN user_message.val
                            ELSE <<>>,
                            pairs, 1, num_pairs)]

---------------------------------------------------------------------------
(* The logging pipeline of slog.h and slog.c: the extractors *)

\* sizeof(value_buffer) in parse_unknown_error, sizeof(val_buf) in the
\* placeholder, sizeof(__user_message_buffer) in LOG_ERRORR
VALUE_BUFFER_SIZE == 128
VAL_BUF_SIZE == 128
USER_MESSAGE_BUFFER_SIZE == 1024

\* one step of an operation: what was done, to which block or stream, with
\* which text
Event(ev, what, text) == [ev |-> ev, what |-> what, text |-> text]

\* malloc, calloc or strdup for the block `what`: the n-th allocation attempt
\* of the operation fails when n is in `fails`
Alloc(n, fails, what) ==
    IF n \in fails THEN Event("malloc_failed", what, <<>>) ELSE Event("malloc", what, <<>>)

\* free(p) for a block; free(NULL) does nothing
Free(what) == Event("free", what, <<>>)

\* the blocks of a pair list
PairsBlock == "pairs"
KeyBlock(i) == <<"pairs[0].key", "pairs[1].key", "pairs[2].key">>[i]
ValueBlock(i) == <<"pairs[0].value", "pairs[1].value", "pairs[2].value">>[i]

\* what an extractor hands back: the list (NULL or Ptr(pairs)), *num_pairs_out,
\* its steps, and the number of allocation attempts made so far
Extracted(pairs, num_pairs, steps, n) ==
    [pairs |-> pairs, num_pairs |-> num_pairs, steps |-> steps, n |-> n]

str_unknown_error_type == <<"u", "n", "k", "n", "o", "w", "n", "_", "e", "r", "r", "o", "r", "_", "t",
      "y", "p", "e">>
fmt_unhandled_type == <<"u", "n", "h", "a", "n", "d", "l", "e", "d", "_", "t", "y", "p", "e", "_",
      "a", "t", "_", "a", "d", "d", "r", "e", "s", "s", "_", "%", "p">>
str_logging_error == <<"l", "o", "g", "g", "i", "n", "g", "_", "e", "r", "r", "o", "r">>
fmt_not_defined_by_user == <<"L", "O", "G", "_", "E", "R", "R", "O", "R", "_", "D", "I", "S", "P", "A",
      "T", "C", "H", "_", "T", "O", "_", "P", "A", "R", "S", "E", "R", " ",
      "n", "o", "t", " ", "d", "e", "f", "i", "n", "e", "d", " ", "b", "y",
      " ", "u", "s", "e", "r", " ", "f", "o", "r", " ", "t", "y", "p", "e",
      " ", "a", "t", " ", "%", "p">>

\* a variant that forgets the key when the value cannot be duplicated
parse_unknown_error_LeaksKey(error_details, n, fails) ==
    IF error_details.null THEN Extracted(NULL, 0, <<>>, n)
    ELSE IF n + 1 \in fails
    THEN Extracted(NULL, 0, <<Alloc(n + 1, fails, PairsBlock)>>, n + 1)
    ELSE IF n + 2 \in fails
    THEN Extracted(NULL, 0,
                   <<Alloc(n + 1, fails, PairsBlock), Alloc(n + 2, fails, KeyBlock(1)),
                     Free(PairsBlock)>>, n + 2)
    ELSE IF n + 3 \in fails
    THEN Extracted(NULL, 0,
                   <<Alloc(n + 1, fails, PairsBlock), Alloc(n + 2, fails, KeyBlock(1)),
                     Alloc(n + 3, fails, ValueBlock(1)), Free(PairsBlock)>>, n + 3)
    ELSE Extracted(Ptr(<<[key |-> Ptr(str_unknown_error_type),
                          value |-> Ptr(Truncate(Printf(fmt_unhandled_type, error_details),
                                                 VALUE_BUFFER_SIZE))]>>),
                   1,
                   <<Alloc(n + 1, fails, PairsBlock), Alloc(n + 2, fails, KeyBlock(1)),
                     Alloc(n + 3, fails, ValueBlock(1))>>, n + 3)

\* parse_unknown_error of slog.c
parse_unknown_error(error_details, n, fails) ==
    IF error_details.null THEN Extracted(NULL, 0, <<>>, n)
    ELSE IF n + 1 \in fails
    THEN Extracted(NULL, 0, <<Alloc(n + 1, fails, PairsBlock)>>, n + 1)
    ELSE IF n + 2 \in fails
    THEN Extracted(NULL, 0,
                   <<Alloc(n + 1, fails, PairsBlock), Alloc(n + 2, fails, KeyBlock(1)),
                     Free(PairsBlock)>>, n + 2)
    ELSE IF n + 3 \in fails
    THEN Extracted(NULL, 0,
                   <<Alloc(n + 1, fails, PairsBlock), Alloc(n + 2, fails, KeyBlock(1)),
                     Alloc(n + 3, fails, ValueBlock(1)), Free(KeyBlock(1)),
                     Free(PairsBlock)>>, n + 3)
    ELSE Extracted(Ptr(<<[key |-> Ptr(str_unknown_error_type),
                          value |-> Ptr(Truncate(Printf(fmt_unhandled_type, error_details),
                                                 VALUE_BUFFER_SIZE))]>>),
                   1,
                   <<Alloc(n + 1, fails, PairsBlock), Alloc(n + 2, fails, KeyBlock(1)),
                     Alloc(n + 3, fails, ValueBlock(1))>>, n + 3)

\* generic_error_parser_placeholder of slog.h: both strings are duplicated
\* before either is tested
generic_error_parser_placeholder(error_details, n, fails) ==
    IF error_details.null THEN Extracted(NULL, 0, <<>>, n)
    ELSE IF n + 1 \in fails
    THEN Extracted(NULL, 0, <<Alloc(n + 1, fails, PairsBlock)>>, n + 1)
    ELSE LET allocs == <<Alloc(n + 1, fails, PairsBlock), Alloc(n + 2, fails, KeyBlock(1)),
                         Alloc(n + 3, fails, ValueBlock(1))>>
         IN
         IF n + 2 \notin fails /\ n + 3 \notin fails
         THEN Extracted(Ptr(<<[key |-> Ptr(str_logging_error),
                               value |-> Ptr(Truncate(Printf(fmt_not_defined_by_user,
                                                             error_details),
                                                      VAL_BUF_SIZE))]>>),
                        1, allocs, n + 3)
         ELSE Extracted(NULL, 0,
                        allocs
                        \o (IF n + 2 \notin fails THEN <<Free(KeyBlock(1))>> ELSE <<>>)
                        \o (IF n + 3 \notin fails THEN <<Free(ValueBlock(1))>> ELSE <<>>)
                        \o <<Free(PairsBlock)>>,
                        n + 3)

\* a field of an error type: the descriptor DEFINE_ERROR_TYPE takes
ERROR_FIELD(ctype, name, printf_fmt, doc_str) ==
    [ctype |-> ctype, name |-> name, printf_fmt |-> printf_fmt, doc_str |-> doc_str]

\* Point declared as an error type
POINT_ERROR_FIELDS ==
    << ERROR_FIELD("int", "x", fmt_d, "x"),
       ERROR_FIELD("int", "y", fmt_d, "y") >>

\* the populate step of parse_##StructName for fields i.. of the instance: st
\* holds pairs, current_idx (as Len(st.pairs)), parse_success, the steps and
\* the allocation attempts so far
RECURSIVE ERROR_FIELD_POPULATE_KV_ACTION(_, _, _, _, _)
ERROR_FIELD_POPULATE_KV_ACTION(fields, i, error_instance, fails, st) ==
    IF i > Len(fields) THEN st
    ELSE IF ~st.parse_success
    THEN ERROR_FIELD_POPULATE_KV_ACTION(fields, i + 1, error_instance, fails, st)
    ELSE LET idx == Len(st.pairs) + 1
             f == fields[i]
             key == Alloc(st.n + 1, fails, KeyBlock(idx))
             value == Alloc(st.n + 2, fails, ValueBlock(idx))
             next ==
                 IF st.n + 1 \in fails
                 THEN [st EXCEPT !.parse_success = FALSE, !.n = st.n + 1,
                                 !.steps = st.steps \o <<key>>]
                 ELSE IF st.n + 2 \in fails
                 THEN [st EXCEPT !.parse_success = FALSE, !.n = st.n + 2,
                                 !.steps = st.steps \o <<key, value>>,
                                 !.owned = st.owned \o <<KeyBlock(idx)>>]
                 ELSE [st EXCEPT !.n = st.n + 2,
                                 !.steps = st.steps \o <<key, value>>,
                                 !.owned = st.owned \o <<KeyBlock(idx), ValueBlock(idx)>>,
                                 !.pairs = st.pairs \o
                                     <<[key |-> Ptr(Stringify(f.name)),
                                        value |-> Ptr(Printf(f.printf_fmt,
                                                             error_instance.val[f.name]))]>>]
         IN ERROR_FIELD_POPULATE_KV_ACTION(fields, i + 1, error_instance, fails, next)

\* parse_##StructName as DEFINE_ERROR_TYPE generates it
parse_StructName(fields, error_instance, n, fails) ==
    IF error_instance.null THEN Extracted(NULL, 0, <<>>, n)
    ELSE IF Len(fields) = 0 THEN Extracted(NULL, 0, <<>>, n)
    ELSE IF n + 1 \in fails
    THEN Extracted(NULL, 0, <<Alloc(n + 1, fails, PairsBlock)>>, n + 1)
    ELSE LET st == ERROR_FIELD_POPULATE_KV_ACTION(
                       fields, 1, error_instance, fails,
                       [pairs |-> <<>>, parse_success |-> TRUE, n |-> n + 1,
                        steps |-> <<Alloc(n + 1, fails, PairsBlock)>>, owned |-> <<>>])
         IN
         IF ~st.parse_success
         THEN Extracted(NULL, 0,
                        st.steps \o [k \in 1..Len(st.owned) |-> Free(st.owned[k])]
                        \o <<Free(PairsBlock)>>,
                        st.n)
         ELSE Extracted(Ptr(st.pairs), Len(st.pairs), st.steps, st.n)

\* the static types for which the program's _Generic lists an extractor
RegisteredTypes == {"const Point*"}

\* LOG_ERROR_DISPATCH_TO_PARSER: as slog.h defines it ("placeholder"), or as
\* the program is told to define it ("generic"): a _Generic selection on the
\* static type of its first argument with parse_unknown_error as the default
LOG_ERROR_DISPATCH_TO_PARSER(macro, static_type, error_details_ptr, n, fails) ==
    IF macro = "placeholder"
    THEN generic_error_parser_placeholder(error_details_ptr, n, fails)
    ELSE IF static_type = "const Point*"
    THEN parse_StructName(POINT_ERROR_FIELDS, error_details_ptr, n, fails)
    ELSE parse_unknown_error(error_details_ptr, n, fails)

---------------------------------------------------------------------------
(* The logging pipeline: init_logging_system, sink_to_file_stream, LOG_ERRORR *)

str_not_initialized == <<"[", "L", "O", "G", "_", "E", "R", "R", "O", "R", "R", " ", "C", "r", "i",
      "t", "i", "c", "a", "l", "]", " ", "L", "o", "g", "g", "i", "n", "g",
      " ", "s", "y", "s", "t", "e", "m", " ", "n", "o", "t", " ", "i", "n",
      "i", "t", "i", "a", "l", "i", "z", "e", "d", ".", " ", "U", "s", "e",
      "r", " ", "m", "e", "s", "s", "a", "g", "e", ":", " ">>
str_newline == <<"\n">>
fmt_vsnprintf_failed == <<"L", "O", "G", "_", "E", "R", "R", "O", "R", "R", ":", " ", "v", "s", "n",
      "p", "r", "i", "n", "t", "f", " ", "f", "a", "i", "l", "e", "d", " ",
      "f", "o", "r", " ", "u", "s", "e", "r", " ", "m", "e", "s", "s", "a",
      "g", "e", ".", " ", "O", "r", "i", "g", "i", "n", "a", "l", " ", "f",
      "m", "t", ":", " ", "%", "s">>
trunc_indicator == <<".", ".", ".", "(", "m", "s", "g", "_", "t", "r", "u", "n", "c", "a", "t",
      "e", "d", ")">>
fmt_formatter_failed == <<"[", "L", "O", "G", "_", "E", "R", "R", "O", "R", "R", " ", "W", "a", "r",
      "n", "i", "n", "g", "]", " ", "F", "o", "r", "m", "a", "t", "t", "e",
      "r", " ", "f", "a", "i", "l", "e", "d", ".", " ", "R", "a", "w", " ",
      "u", "s", "e", "r", " ", "m", "e", "s", "s", "a", "g", "e", ":", " ",
      "%", "s", "\n">>
fmt_parsing_failed == <<"[", "L", "O", "G", "_", "E", "R", "R", "O", "R", "R", " ", "W", "a", "r",
      "n", "i", "n", "g", "]", " ", "P", "a", "r", "s", "i", "n", "g", " ",
      "o", "f", " ", "e", "r", "r", "o", "r", " ", "d", "e", "t", "a", "i",
      "l", "s", " ", "m", "i", "g", "h", "t", " ", "h", "a", "v", "e", " ",
      "a", "l", "s", "o", " ", "f", "a", "i", "l", "e", "d", " ", "f", "o",
      "r", " ", "p", "t", "r", " ", "%", "p", ".", "\n">>

\* the stream "stderr" stands for stderr
stderr == "stderr"

\* ptr ? ptr : stderr
OrStderr(stream) == IF stream.null THEN stderr ELSE stream.val

\* an init that stores the stream argument as it is
init_logging_system_KeepsNull(formatter, sink, default_stream) ==
    [g_current_formatter |-> formatter,
     g_current_sink |-> sink,
     g_default_log_stream |-> default_stream]

\* the values init_logging_system stores in the three globals
init_logging_system(formatter, sink, default_stream) ==
    [g_current_formatter |-> formatter,
     g_current_sink |-> sink,
     g_default_log_stream |-> Ptr(OrStderr(default_stream))]

\* a sink that leaves the line in the stream's buffer
sink_to_file_stream_NoFlush(formatted_log, output_stream) ==
    << Event("fprintf", OrStderr(output_stream), formatted_log \o str_newline) >>

\* sink_to_file_stream of slog.c
sink_to_file_stream(formatted_log, output_stream) ==
    << Event("fprintf", OrStderr(output_stream), formatted_log \o str_newline),
       Event("fflush", OrStderr(output_stream), <<>>) >>

\* a vsnprintf that stores all 1024 bytes of a long message
Vsnprintf_NoTerminator(text, size) == SubSeq(text, 1, Min(Len(text), size))

\* what vsnprintf leaves in the buffer
Vsnprintf(text, size) == Truncate(text, size)

\* step 2 of LOG_ERRORR: __user_message_buffer after the message was rendered
\* with the va_list `args`; vsnprintf may fail
user_message_buffer(user_fmt, args, render_fails) ==
    IF render_fails
    THEN Truncate(Printf(fmt_vsnprintf_failed, Ptr(user_fmt)), USER_MESSAGE_BUFFER_SIZE)
    ELSE LET rendered == Printf(user_fmt, args)
             buf == Vsnprintf(rendered, USER_MESSAGE_BUFFER_SIZE)
             remaining_space == USER_MESSAGE_BUFFER_SIZE - Len(buf) - 1
         IN
         IF Len(rendered) >= USER_MESSAGE_BUFFER_SIZE
         THEN IF Len(trunc_indicator) <= remaining_space
              THEN buf \o trunc_indicator
              ELSE buf
         ELSE buf

\* a free_kv_pairs that releases the array and not the strings
free_kv_pairs_ListOnly(pairs, num_pairs) ==
    IF pairs.null THEN <<>> ELSE <<Free(PairsBlock)>>

\* free_kv_pairs of slog.h
free_kv_pairs(pairs, num_pairs) ==
    IF pairs.null THEN <<>>
    ELSE [k \in 1..(2 * num_pairs) |->
             IF k % 2 = 1 THEN Free(KeyBlock((k + 1) \div 2)) ELSE Free(ValueBlock(k \div 2))]
         \o <<Free(PairsBlock)>>

\* the streams of the program, nothing written to them yet
Streams == {stderr, "logfile"}
NoOutput == [s \in Streams |-> <<>>]
NothingFlushed == [s \in Streams |-> 0]

\* the arguments of a logger operation: of LOG_ERRORR (kind "LOG_ERRORR"), of
\* a use of LOG_ERROR_DISPATCH_TO_PARSER on an expression of a static type
\* (kind "dispatch"), of sink_to_file_stream (kind "sink")
CallArgs(kind, error_details_ptr, static_type, user_fmt, va_args, fn_args, fails, render_fails, formatted_log, output_stream) ==
    [kind |-> kind, error_details_ptr |-> error_details_ptr, static_type |-> static_type,
     user_fmt |-> user_fmt, va_args |-> va_args, fn_args |-> fn_args, fails |-> fails,
     render_fails |-> render_fails, formatted_log |-> formatted_log,
     output_stream |-> output_stream]

NoCall == CallArgs("none", NULL, "const void*", <<>>, 0, 0, {}, FALSE, <<>>, NULL)

\* the locals of the latest operation when it ended
Locals(configured, pairs, num_pairs, user_message, final_log_message, end) ==
    [configured |-> configured, pairs |-> pairs, num_pairs |-> num_pairs,
     user_message |-> user_message, final_log_message |-> final_log_message,
     end |-> end]

NoResult == Locals(FALSE, NULL, 0, NULL, NULL, "none")

\* a test that does not look at the count
ParsingMightHaveFailed_IgnoresCount(local_err_ptr, kv_pairs_ptr, num_pairs) ==
    ~local_err_ptr.null /\ kv_pairs_ptr.null

\* the test before the second warning: __local_err_ptr && !__kv_pairs &&
\* __num_pairs == 0
ParsingMightHaveFailed(local_err_ptr, kv_pairs_ptr, num_pairs) ==
    ~local_err_ptr.null /\ kv_pairs_ptr.null /\ num_pairs = 0

\* a test that only looks at the formatter
NotInitialized_FormatterOnly(formatter, sink) == formatter.null

\* the test !g_current_formatter || !g_current_sink
NotInitialized(formatter, sink) == formatter.null \/ sink.null

\* the name of a function a pointer holds
FunctionName(fn) == IF fn.null THEN "NULL" ELSE fn.val

\* the path of LOG_ERRORR when the logger is not initialised: the banner, the
\* message rendered from the arguments of the macro, and a newline
LOG_ERRORR_uninitialized(a, current_log_stream) ==
    [configured |-> FALSE,
     steps |-> << Event("fprintf", current_log_stream, str_not_initialized),
                  Event("fprintf", current_log_stream, Printf(a.user_fmt, a.va_args)),
                  Event("fprintf", current_log_stream, str_newline) >>,
     pairs |-> NULL, num_pairs |-> 0, user_message |-> NULL,
     final_log_message |-> NULL, overflow |-> FALSE]

\* steps 4 and 5 of LOG_ERRORR, and the locals at its end: the pair list is
\* released (and __kv_pairs set to NULL), then either the two warnings are
\* written or the line goes to the sink and is released. ex is what the
\* extractor returned, f what the formatter computed, final_log_message what
\* it returned (NULL when its allocation failed).
LOG_ERRORR_returned(a, formatter, sink, current_log_stream, macro, ex, user_message, f, final_log_message) ==
    [configured |-> TRUE,
     steps |->
        (IF ~a.error_details_ptr.null
         THEN <<Event("dispatch", macro, <<>>)>> \o ex.steps
         ELSE <<>>)
        \o << Event("formatter", FunctionName(formatter), user_message),
              Alloc(ex.n + 1, a.fails, "final_log_message"),
              Event("formatter_return", FunctionName(formatter),
                    IF final_log_message.null THEN <<>> ELSE f.buffer) >>
        \o free_kv_pairs(ex.pairs, ex.num_pairs)
        \o (IF final_log_message.null
            THEN <<Event("fprintf", current_log_stream,
                         Printf(fmt_formatter_failed, Ptr(user_message)))>>
                 \o (IF ParsingMightHaveFailed(a.error_details_ptr, NULL, ex.num_pairs)
                     THEN <<Event("fprintf", current_log_stream,
                                  Printf(fmt_parsing_failed, a.error_details_ptr))>>
                     ELSE <<>>)
            ELSE <<Event("sink", FunctionName(sink), f.buffer)>>
                 \o sink_to_file_stream(f.buffer, Ptr(current_log_stream))
                 \o <<Free("final_log_message")>>),
     pairs |-> ex.pairs, num_pairs |-> ex.num_pairs,
     user_message |-> Ptr(user_message),
     final_log_message |-> final_log_message,
     overflow |-> ~final_log_message.null /\ Len(f.buffer) + 1 > f.required_size]

\* LOG_ERRORR after the formatter computed f: the formatter returns the line,
\* or NULL when its allocation failed
LOG_ERRORR_formatted(a, formatter, sink, current_log_stream, macro, ex, user_message, f) ==
    LOG_ERRORR_returned(a, formatter, sink, current_log_stream, macro, ex, user_message, f,
                         IF ex.n + 1 \in a.fails THEN NULL ELSE Ptr(f.buffer))

\* LOG_ERRORR after step 2 left user_message in __user_message_buffer: step 3
\* calls g_current_formatter, here format_logfmt, with the buffer and the pairs
LOG_ERRORR_rendered(a, formatter, sink, current_log_stream, macro, ex, user_message) ==
    LOG_ERRORR_formatted(a, formatter, sink, current_log_stream, macro, ex, user_message,
                        format_logfmt(Ptr(user_message),
                                      IF ex.pairs.null THEN <<>> ELSE ex.pairs.val,
                                      ex.num_pairs))

\* LOG_ERRORR after step 1: ex is what the extractor returned for
\* __local_err_ptr, or no pairs when the pointer is NULL; step 2 renders the
\* user message
LOG_ERRORR_parsed(a, formatter, sink, current_log_stream, macro, ex) ==
    LOG_ERRORR_rendered(a, formatter, sink, current_log_stream, macro, ex,
                      user_message_buffer(a.user_fmt, a.fn_args, a.render_fails))

\* what one expansion of LOG_ERRORR does: its steps and its locals at the end.
\* a.va_args are the arguments of the macro after user_fmt, a.fn_args the
\* variable arguments of the function the macro is expanded in, which
\* va_start(__args, user_fmt) reads. The pointer is copied into the
\* const void* __local_err_ptr, the expression the dispatch macro is given.
LOG_ERRORR(a, formatter, sink, default_stream, macro) ==
    IF NotInitialized(formatter, sink)
    THEN LOG_ERRORR_uninitialized(a, OrStderr(default_stream))
    ELSE LOG_ERRORR_parsed(
             a, formatter, sink, OrStderr(default_stream), macro,
             IF ~a.error_details_ptr.null
             THEN LOG_ERROR_DISPATCH_TO_PARSER(macro, "const void*", a.error_details_ptr,
                                               0, a.fails)
             ELSE Extracted(NULL, 0, <<>>, 0))

\* the effect of the steps of an operation on the streams, the heap and the
\* record of sink invocations
RECURSIVE Effect(_, _, _)
Effect(s, steps, i) ==
    IF i > Len(steps) THEN s
    ELSE LET e == steps[i] IN
         Effect(
             CASE e.ev = "fprintf" ->
                    [s EXCEPT !.streams[e.what] = s.streams[e.what] \o e.text]
               [] e.ev = "fflush" ->
                    [s EXCEPT !.flushed[e.what] = Len(s.streams[e.what])]
               [] e.ev = "malloc" ->
                    [s EXCEPT !.heap = s.heap \cup {e.what}]
               [] e.ev = "free" ->
                    IF e.what \in s.heap
                    THEN [s EXCEPT !.heap = s.heap \ {e.what}]
                    ELSE [s EXCEPT !.freed_twice = s.freed_twice \cup {e.what}]
               [] e.ev = "sink" ->
                    [s EXCEPT !.sink_log = Append(s.sink_log, e.text)]
               [] OTHER -> s,
             steps, i + 1)

\* the streams, the heap and the sink record after the steps
AfterSteps(steps) ==
    LET s == Effect([streams |-> streams, flushed |-> flushed, heap |-> heap,
                     freed_twice |-> freed_twice, sink_log |-> sink_log], steps, 1)
    IN
    /\ streams' = s.streams
    /\ flushed' = s.flushed
    /\ heap' = s.heap
    /\ freed_twice' = s.freed_twice
    /\ sink_log' = s.sink_log
    /\ trace' = steps

---------------------------------------------------------------------------
(* The calls explored: the records, prefixes and capacities of             *)
(* test_struct_to_str, every smaller capacity, and a prefix too long for   *)
(* the 256-byte name buffer.                                               *)

\* largest of the small capacities tried
MaxCap == 60
\* char buffer[1024] of test_struct_to_str
BUFFER_SIZE == 1024
\* length of a prefix that leaves room in field_full_name for ".x" and no more
FittingPrefixLen == 253
\* length of a prefix that leaves no room in field_full_name for any field name
LongPrefixLen == 254

Capacities == (0..MaxCap) \cup {BUFFER_SIZE}

p1 == [x |-> 10, y |-> 20]
p2 == [x |-> 30, y |-> 40]
l1 == [start |-> p1, end |-> p2,
       label |-> Ptr(<<"M", "a", "i", "n", "L", "i", "n", "e">>)]
sf1 == [feature_id |-> 101,
        feature_name |-> Ptr(<<"S", "u", "p", "e", "r", "S", "p", "e", "e", "d">>)]
sf2 == [feature_id |-> 202, feature_name |-> NULL]
sf_long_name ==
    [feature_id |-> 777,
     feature_name |-> Ptr(<<"T", "h", "i", "s", "I", "s", "A", "V", "e", "r", "y", "L", "o", "n", "g", "F", "e", "a", "t", "u", "r", "e", "N", "a", "m", "e", "D", "e", "s", "i", "g", "n", "e", "d", "T", "o", "C", "a", "u", "s", "e", "O", "v", "e", "r", "f", "l", "o", "w", "I", "n", "S", "m", "a", "l", "l", "B", "u", "f", "f", "e", "r", "s">>)]
prod1 == [product_sku |-> 9001, main_feature |-> sf1,
          product_name |-> Ptr(<<"A", "w", "e", "s", "o", "m", "e", " ", "G", "a", "d", "g", "e", "t">>)]
prod2 == [product_sku |-> 9002, main_feature |-> sf2,
          product_name |-> Ptr(<<"B", "a", "s", "i", "c", " ", "G", "a", "d", "g", "e", "t">>)]

Records(T) ==
    CASE T = "Point" -> {p1, p2, [x |-> 1, y |-> 2], [x |-> -5, y |-> 0]}
      [] T = "Line" -> {l1,
                        [start |-> [x |-> -5, y |-> 0], end |-> [x |-> 1, y |-> 2],
                         label |-> Ptr(<<"a", " ", "b">>)],
                        [start |-> p2, end |-> p1, label |-> Ptr(<<>>)]}
      [] T = "SpecialFeature" -> {sf1, sf2, sf_long_name}
      [] T = "Product" -> {prod1, prod2}
      [] T = "Route" -> {[path |-> l1, hops |-> 3]}
      [] T = "Badge" -> {[feature |-> sf1, label |-> Ptr(<<"v", "i", "p">>)]}
      [] T = "Counter" -> {[hops |-> 3], [hops |-> -12]}

str_mypoint == <<"m", "y", "p", "o", "i", "n", "t">>
str_myline == <<"m", "y", "l", "i", "n", "e">>
str_item == <<"i", "t", "e", "m">>
str_feat == <<"f", "e", "a", "t">>
FittingPrefix == [i \in 1..FittingPrefixLen |-> "a"]
LongPrefix == [i \in 1..LongPrefixLen |-> "a"]

Prefixes == {NULL, Ptr(<<>>), Ptr(<<"p">>), Ptr(str_mypoint), Ptr(str_myline),
             Ptr(str_item), Ptr(str_feat), Ptr(FittingPrefix), Ptr(LongPrefix)}

\* a destination of `size` bytes nobody has written yet
Fresh(size) == [i \in 1..size |-> UNINIT]

\* the values a call that dereferenced a NULL record may hand back, if it returns
UndefinedResults == {-1, 0}

---------------------------------------------------------------------------
(* State machine *)

\* the formatter's part of the state while the stringifiers are explored
FormatIdle ==
    /\ message = NULL
    /\ kv_pairs = <<>>
    /\ allocated = 0
    /\ written = <<>>
    /\ fmt_outcome = "none"

\* the logger's part of the state while it is not explored: nothing was
\* initialised, written, allocated or called
LoggerIdle ==
    /\ g_current_formatter = NULL
    /\ g_current_sink = NULL
    /\ g_default_log_stream = NULL
    /\ dispatch_macro = "placeholder"
    /\ last_init = NULL
    /\ streams = NoOutput
    /\ flushed = NothingFlushed
    /\ sink_log = <<>>
    /\ call_log = <<>>
    /\ heap = {}
    /\ freed_twice = {}
    /\ trace = <<>>
    /\ call = NoCall
    /\ dispatched = NoResult

\* the arguments of one stringifier call are drawn, the call is yet to run; a
\* NULL destination goes with capacity 0
InitToStr ==
    /\ op = "none"
    /\ type_name \in AutoTypes \cup CustomTypes
    /\ record \in {NULL} \cup {Ptr(v) : v \in Records(type_name)}
    /\ prefix_arg \in Prefixes
    /\ capacity \in Capacities
    /\ dest_null \in IF capacity = 0 THEN BOOLEAN ELSE {FALSE}
    /\ dest = Fresh(capacity)
    /\ result = 0
    /\ outcome = "returned"
    /\ FormatIdle
    /\ LoggerIdle

\* the state a stringifier call leaves for r, the value of the call
Returned(r) ==
    /\ IF r.ub
       THEN /\ outcome' = "undefined"
            /\ result' \in UndefinedResults
            /\ dest' = dest
       ELSE /\ outcome' = "returned"
            /\ result' = r.ret
            /\ dest' = r.mem
    /\ UNCHANGED <<type_name, record, prefix_arg, dest_null, capacity>>
    /\ UNCHANGED fmt_vars
    /\ UNCHANGED log_vars

\* the call of a generated <Type>_to_str
Call_to_str ==
    /\ op = "none"
    /\ type_name \in AutoTypes
    /\ op' = "to_str"
    /\ Returned(DEFINE_TO_STR_INTERNAL(type_name, dest, 0, capacity, record, prefix_arg))

\* the direct call of the hand-written SpecialFeature_to_str
Call_SpecialFeature_to_str ==
    /\ op = "none"
    /\ type_name \in CustomTypes
    /\ op' = "custom_to_str"
    /\ Returned(SpecialFeature_to_str(dest, 0, capacity, record, prefix_arg))

NextToStr == Call_to_str \/ Call_SpecialFeature_to_str

SpecToStr == InitToStr /\ [][NextToStr]_vars

---------------------------------------------------------------------------
(* The formatter calls explored *)

\* the longest pair list tried
MaxPairs == 2

str_bad_thing_7 == <<"b", "a", "d", " ", "t", "h", "i", "n", "g", " ", "7">>

Messages == {NULL, Ptr(<<>>), Ptr(<<"m">>), Ptr(<<"m", " ">>), Ptr(<<" ">>),
             Ptr(str_bad_thing_7)}

Keys == {NULL, Ptr(<<"k">>), Ptr(<<"x", "1">>)}

Values == {NULL, Ptr(<<>>), Ptr(<<"1">>), Ptr(<<"a", "\"", "b">>),
           Ptr(<<"\\", "\"">>), Ptr(<<"a", " ", "b">>)}

KeyValuePair == [key : Keys, value : Values]

PairLists == UNION {[1..n -> KeyValuePair] : n \in 0..MaxPairs}

\* the stringifiers' part of the state while the formatter is explored
ToStrIdle ==
    /\ type_name = "none"
    /\ record = NULL
    /\ prefix_arg = NULL
    /\ dest_null = FALSE
    /\ capacity = 0
    /\ dest = <<>>
    /\ result = 0
    /\ outcome = "returned"

\* the arguments of one formatter call are drawn, the call is yet to run
InitFormat ==
    /\ op = "none"
    /\ message \in Messages
    /\ kv_pairs \in PairLists
    /\ allocated = 0
    /\ written = <<>>
    /\ fmt_outcome = "none"
    /\ ToStrIdle
    /\ LoggerIdle

\* the call of format_logfmt. malloc may fail, and the call returns NULL. When
\* the string built is longer than the allocation, the stores past its end are
\* undefined behaviour: the call may return the line all the same, or the heap
\* is corrupted.
Call_format_logfmt ==
    /\ op = "none"
    /\ fmt_outcome = "none"
    /\ op' = "format_logfmt"
    /\ LET r == format_logfmt(message, kv_pairs, Len(kv_pairs)) IN
       /\ allocated' = r.required_size
       /\ \/ /\ fmt_outcome' = "null"
             /\ written' = <<>>
          \/ /\ Len(r.buffer) + 1 <= r.required_size
             /\ fmt_outcome' = "returned"
             /\ written' = r.buffer
          \/ /\ Len(r.buffer) + 1 > r.required_size
             /\ fmt_outcome' \in {"returned", "undefined"}
             /\ written' = r.buffer
    /\ UNCHANGED <<message, kv_pairs>>
    /\ UNCHANGED to_str_vars
    /\ UNCHANGED log_vars

NextFormat == Call_format_logfmt

SpecFormat == InitFormat /\ [][NextFormat]_vars

---------------------------------------------------------------------------
(* The logger operations explored *)

\* the most allocation attempts of one operation whose failure is explored
MaxAllocs == 5

\* the most LOG_ERRORR calls of one run
MaxCalls == 2

\* lengths of a format that fits __user_message_buffer and of one that does not
FittingFormatLen == 1022
LongFormatLen == 1024

\* a Point {1, 2}, and a record of a type the program declares no extractor for
point_ptr == [null |-> FALSE, addr |-> <<"0", "x", "7", "f", "f", "c", "4", "0">>, val |-> [x |-> 1, y |-> 2]]
opaque_ptr == [null |-> FALSE, addr |-> <<"0", "x", "5", "5", "a", "a", "1", "0">>, val |-> [code |-> 5]]

fmt_bad_thing == <<"b", "a", "d", " ", "t", "h", "i", "n", "g", " ", "%", "d">>
fmt_m_space == <<"m", " ">>
FittingFormat == [i \in 1..FittingFormatLen |-> "a"]
LongFormat == [i \in 1..LongFormatLen |-> "a"]

\* user_fmt, the macro's arguments after it, and the variable arguments of the
\* enclosing function
UserMessage(user_fmt, va_args, fn_args) ==
    [user_fmt |-> user_fmt, va_args |-> va_args, fn_args |-> fn_args]

UserMessages ==
    { UserMessage(fmt_bad_thing, 7, 7), UserMessage(fmt_bad_thing, 7, 9),
      UserMessage(fmt_m_space, 0, 0), UserMessage(FittingFormat, 0, 0),
      UserMessage(LongFormat, 0, 0) }

Formatters == {NULL, Ptr("format_logfmt")}
Sinks == {NULL, Ptr("sink_to_file_stream")}
StreamArgs == {NULL, Ptr("logfile")}
DispatchMacros == {"placeholder", "generic"}

\* the LOG_ERRORR calls of the single-call exploration
LogCalls ==
    { CallArgs("LOG_ERRORR", p, "const void*", m.user_fmt, m.va_args, m.fn_args, fl, rf,
               <<>>, NULL) :
        p \in {NULL, point_ptr, opaque_ptr}, m \in UserMessages,
        fl \in SUBSET (1..(MaxAllocs - 1)), rf \in BOOLEAN }

\* the direct uses of the dispatch macro: a pointer and the static type of the
\* expression that holds it
DispatchCalls ==
    { CallArgs("dispatch", pt[1], pt[2], <<>>, 0, 0, fl, FALSE, <<>>, NULL) :
        pt \in { <<NULL, "const Point*">>, <<point_ptr, "const Point*">>,
                 <<NULL, "const Opaque*">>, <<opaque_ptr, "const Opaque*">>,
                 <<point_ptr, "const void*">> },
        fl \in SUBSET (1..MaxAllocs) }

\* the direct calls of the default sink
SinkCalls ==
    { CallArgs("sink", NULL, "const void*", <<>>, 0, 0, {}, FALSE, ln, st) :
        ln \in {<<>>, fmt_m_space, <<"m", " ", "k", "=", "\"", "1", "\"">>},
        st \in {NULL, Ptr(stderr), Ptr("logfile")} }

\* the LOG_ERRORR calls of the exploration of call sequences
SequenceCalls ==
    { CallArgs("LOG_ERRORR", p, "const void*", m.user_fmt, m.va_args, m.fn_args, fl,
               FALSE, <<>>, NULL) :
        p \in {NULL, point_ptr},
        m \in {UserMessage(fmt_bad_thing, 7, 7), UserMessage(fmt_m_space, 0, 0)},
        fl \in {{}, 1..MaxAllocs} }

\* the direct calls of the default sink in a call sequence
SequenceSinkCalls ==
    { CallArgs("sink", NULL, "const void*", <<>>, 0, 0, {}, FALSE, fmt_m_space, st) :
        st \in {NULL, Ptr("logfile")} }

\* a program that never called init_logging_system, or whose latest call of
\* it had the arguments last_init holds
Configured ==
    \/ /\ last_init = NULL
       /\ g_current_formatter = NULL
       /\ g_current_sink = NULL
       /\ g_default_log_stream = NULL
    \/ \E f \in Formatters, s \in Sinks, d \in StreamArgs :
          /\ last_init = Ptr([formatter |-> f, sink |-> s, default_stream |-> d])
          /\ g_current_formatter = init_logging_system(f, s, d).g_current_formatter
          /\ g_current_sink = init_logging_system(f, s, d).g_current_sink
          /\ g_default_log_stream = init_logging_system(f, s, d).g_default_log_stream

\* nothing written, allocated or called yet
FreshLogger ==
    /\ streams = NoOutput
    /\ flushed = NothingFlushed
    /\ sink_log = <<>>
    /\ call_log = <<>>
    /\ heap = {}
    /\ freed_twice = {}
    /\ trace = <<>>
    /\ dispatched = NoResult

\* one logger operation: the program's configuration and the arguments are
\* drawn, the operation is yet to run
InitLogCall ==
    /\ op = "none"
    /\ dispatch_macro \in DispatchMacros
    /\ call \in LogCalls \cup DispatchCalls \cup SinkCalls
    /\ IF call.kind = "LOG_ERRORR"
       THEN Configured
       ELSE last_init = NULL /\ g_current_formatter = NULL /\ g_current_sink = NULL
            /\ g_default_log_stream = NULL
    /\ FreshLogger
    /\ ToStrIdle
    /\ FormatIdle

\* the state after an expansion of LOG_ERRORR with arguments a that did r. A
\* formatter that stores past its allocation has undefined behaviour.
LogErrorDone(a, r) ==
    /\ op' = "LOG_ERRORR"
    /\ call' = a
    /\ AfterSteps(r.steps)
    /\ call_log' = Append(call_log, [kind |-> "LOG_ERRORR",
                                     configured |-> r.configured,
                                     final_log_message |-> r.final_log_message])
    /\ \E end \in (IF r.overflow THEN {"returned", "undefined"} ELSE {"returned"}) :
          dispatched' = Locals(r.configured, r.pairs, r.num_pairs, r.user_message,
                               r.final_log_message, end)
    /\ UNCHANGED <<g_current_formatter, g_current_sink, g_default_log_stream,
                   dispatch_macro, last_init>>
    /\ UNCHANGED to_str_vars
    /\ UNCHANGED fmt_vars

\* the expansion of LOG_ERRORR with arguments a
LogErrorStep(a) ==
    LogErrorDone(a, LOG_ERRORR(a, g_current_formatter, g_current_sink,
                               g_default_log_stream, dispatch_macro))

\* the pending LOG_ERRORR call
Call_LOG_ERRORR ==
    /\ op = "none"
    /\ call.kind = "LOG_ERRORR"
    /\ LogErrorStep(call)

\* the pending use of LOG_ERROR_DISPATCH_TO_PARSER(ptr, &num_pairs)
Call_LOG_ERROR_DISPATCH_TO_PARSER ==
    /\ op = "none"
    /\ call.kind = "dispatch"
    /\ op' = "dispatch"
    /\ LET ex == LOG_ERROR_DISPATCH_TO_PARSER(dispatch_macro, call.static_type,
                                              call.error_details_ptr, 0, call.fails)
       IN
       /\ AfterSteps(ex.steps)
       /\ dispatched' = Locals(FALSE, ex.pairs, ex.num_pairs, NULL, NULL, "returned")
    /\ UNCHANGED <<g_current_formatter, g_current_sink, g_default_log_stream,
                   dispatch_macro, last_init, call_log, call>>
    /\ UNCHANGED to_str_vars
    /\ UNCHANGED fmt_vars

\* a call of sink_to_file_stream by the program itself, with arguments a
SinkStep(a) ==
    /\ op' = "sink_to_file_stream"
    /\ call' = a
    /\ AfterSteps(sink_to_file_stream(a.formatted_log, a.output_stream))
    /\ call_log' = Append(call_log, [kind |-> "sink", configured |-> FALSE,
                                     final_log_message |-> NULL])
    /\ UNCHANGED <<g_current_formatter, g_current_sink, g_default_log_stream,
                   dispatch_macro, last_init, dispatched>>
    /\ UNCHANGED to_str_vars
    /\ UNCHANGED fmt_vars

\* the pending call of sink_to_file_stream
Call_sink_to_file_stream ==
    /\ op = "none"
    /\ call.kind = "sink"
    /\ SinkStep(call)

NextLogCall ==
    \/ Call_LOG_ERRORR
    \/ Call_LOG_ERROR_DISPATCH_TO_PARSER
    \/ Call_sink_to_file_stream

SpecLogCall == InitLogCall /\ [][NextLogCall]_vars

\* a program before its first logger call
InitLogger ==
    /\ op = "none"
    /\ dispatch_macro \in DispatchMacros
    /\ call = NoCall
    /\ last_init = NULL
    /\ g_current_formatter = NULL
    /\ g_current_sink = NULL
    /\ g_default_log_stream = NULL
    /\ FreshLogger
    /\ ToStrIdle
    /\ FormatIdle

\* a call of init_logging_system
Call_init_logging_system ==
    /\ \E f \in Formatters, s \in Sinks, d \in StreamArgs :
          /\ g_current_formatter' = init_logging_system(f, s, d).g_current_formatter
          /\ g_current_sink' = init_logging_system(f, s, d).g_current_sink
          /\ g_default_log_stream' = init_logging_system(f, s, d).g_default_log_stream
          /\ last_init' = Ptr([formatter |-> f, sink |-> s, default_stream |-> d])
    /\ op' = "init_logging_system"
    /\ trace' = <<>>
    /\ UNCHANGED <<dispatch_macro, streams, flushed, sink_log, call_log, heap,
                   freed_twice, call, dispatched>>
    /\ UNCHANGED to_str_vars
    /\ UNCHANGED fmt_vars

\* one more LOG_ERRORR call of the run
Next_LOG_ERRORR ==
    /\ Len(call_log) < MaxCalls
    /\ \E a \in SequenceCalls : LogErrorStep(a)

\* one more call of the default sink by the program itself
Next_sink_to_file_stream ==
    /\ Len(call_log) < MaxCalls
    /\ \E a \in SequenceSinkCalls : SinkStep(a)

NextLogger ==
    \/ Call_init_logging_system
    \/ Next_LOG_ERRORR
    \/ Next_sink_to_file_stream

SpecLogger == InitLogger /\ [][NextLogger]_vars

---------------------------------------------------------------------------
(* Reading the destination back *)

\* buffer[i]
Peek(mem, i) == mem[i + 1]

\* the destination holds a terminator
Terminated(mem) == \E i \in 0..(Len(mem) - 1) : Peek(mem, i) = NUL

\* strlen(mem)
Strlen(mem) ==
    CHOOSE i \in 0..(Len(mem) - 1) :
        Peek(mem, i) = NUL /\ \A j \in 0..(i - 1) : Peek(mem, j) # NUL

\* the C string in a terminated destination
CString(mem) == SubSeq(mem, 1, Strlen(mem))

\* the assertions of test_struct_to_str
TestScenarios ==
    /\ (op = "to_str" /\ type_name = "Point" /\ record = Ptr(p1)
        /\ prefix_arg = Ptr(str_mypoint) /\ capacity = BUFFER_SIZE) => result = 25
    /\ (op = "to_str" /\ type_name = "Line" /\ record = Ptr(l1)
        /\ prefix_arg = Ptr(str_myline) /\ capacity = BUFFER_SIZE) => result = 89
    /\ (op = "custom_to_str" /\ record = Ptr(sf1)
        /\ prefix_arg = NULL /\ capacity = BUFFER_SIZE) => result = 68
    /\ (op = "custom_to_str" /\ record = Ptr(sf1)
        /\ prefix_arg = Ptr(str_feat) /\ capacity = BUFFER_SIZE) => result = 78
    /\ (op = "to_str" /\ type_name = "Product" /\ record = Ptr(prod1)
        /\ prefix_arg = NULL /\ capacity = BUFFER_SIZE) => result = 139
    /\ (op = "to_str" /\ type_name = "Product" /\ record = Ptr(prod2)
        /\ prefix_arg = Ptr(str_item) /\ capacity = BUFFER_SIZE) => result = 151
    /\ (op = "custom_to_str" /\ record = Ptr(sf_long_name)
        /\ prefix_arg = Ptr(<<"t", "e", "s", "t">>) /\ capacity = 50) => result < 0

---------------------------------------------------------------------------
(* The output grammar of the specification, stated on text: the scalar     *)
(* leaves of a record in depth-first declaration order, one key=value      *)
(* token per leaf, tokens joined by single spaces.                         *)

\* the types whose stringifier, and every stringifier below it, is generated
PureAutoTypes == {"Point", "Line", "Route", "Counter"}

\* the leaves a hand-written SpecialFeature_to_str renders
CustomLeaves(v) ==
    << [segs |-> <<"feature_id">>,
        text |-> IntToDec(v.feature_id)
                 \o <<" ", "(", "c", "u", "s", "t", "o", "m", "_", "f", "m", "t", ")">>,
        custom |-> TRUE],
       [segs |-> <<"feature_name">>,
        text |-> <<"\\", "\"">>
                 \o (IF v.feature_name.null THEN <<"n", "u", "l", "l">>
                     ELSE v.feature_name.val)
                 \o <<"\\", "\"">>
                 \o <<" ", "(", "c", "u", "s", "t", "o", "m", "_", "f", "m", "t", ")">>,
        custom |-> TRUE] >>

\* the scalar leaves of a value v of type T: the field names from the record
\* down to the leaf, and the leaf's rendered value
RECURSIVE Leaves(_, _), LeavesFrom(_, _, _)
Leaves(T, v) ==
    IF T \in CustomTypes THEN CustomLeaves(v)
    ELSE LeavesFrom(FIELDS_XMACRO_LIST(T), 1, v)

LeavesFrom(fields, i, v) ==
    IF i > Len(fields) THEN <<>>
    ELSE LET f == fields[i]
             below == Leaves(f.struct_type_token, v[f.cname])
         IN  (IF f.ckind = PRIMITIVE
              THEN << [segs |-> <<f.cname>>,
                       text |-> Printf(f.primitive_format_spec, v[f.cname]),
                       custom |-> FALSE] >>
              ELSE [k \in 1..Len(below) |->
                       [below[k] EXCEPT !.segs = <<f.cname>> \o below[k].segs]])
             \o LeavesFrom(fields, i + 1, v)

\* the number of scalar fields reachable from type T
RECURSIVE ScalarLeafCount(_), ScalarLeafCountFrom(_, _)
ScalarLeafCount(T) == ScalarLeafCountFrom(FIELDS_XMACRO_LIST(T), 1)

ScalarLeafCountFrom(fields, i) ==
    IF i > Len(fields) THEN 0
    ELSE (IF fields[i].ckind = PRIMITIVE THEN 1
          ELSE ScalarLeafCount(fields[i].struct_type_token))
         + ScalarLeafCountFrom(fields, i + 1)

\* tokens joined by single spaces
RECURSIVE JoinSp(_)
JoinSp(tokens) ==
    IF tokens = <<>> THEN <<>>
    ELSE IF Len(tokens) = 1 THEN tokens[1]
    ELSE tokens[1] \o <<" ">> \o JoinSp(Tail(tokens))

\* the key the stringifiers build for a leaf: each level extends the prefix it
\* was given, in its own fixed-size name buffer
RECURSIVE BuiltKey(_, _, _)
BuiltKey(prefix, segs, custom) ==
    IF Len(segs) = 1
    THEN IF custom THEN feature_field_name(prefix, segs[1])
         ELSE field_full_name(prefix, segs[1])
    ELSE BuiltKey(Ptr(field_full_name(prefix, segs[1])), Tail(segs), custom)

\* the key=value tokens of a record under a prefix
Tokens(T, v, prefix) ==
    LET leaves == Leaves(T, v) IN
    [k \in 1..Len(leaves) |->
        BuiltKey(prefix, leaves[k].segs, leaves[k].custom) \o <<"=">> \o leaves[k].text]

\* the output the grammar prescribes
ExpectedText(T, v, prefix) == JoinSp(Tokens(T, v, prefix))

\* a call of a generated stringifier on a record has returned
RenderedRecord == op = "to_str" /\ outcome = "returned" /\ ~record.null

---------------------------------------------------------------------------
(* Claims *)

\* C1: a call of a generated stringifier that succeeds returns N >= 0, the
\* length of the string it leaves in the buffer, and buffer[N] is the
\* terminator; for a record whose stringifiers are all generated, every capacity
\* that holds the output and its terminator makes the call succeed with the
\* length of the output.
C1_SuccessReturnsLength ==
    (op = "to_str" /\ outcome = "returned") =>
        /\ result >= 0 =>
              /\ Terminated(dest)
              /\ Strlen(dest) = result
              /\ Peek(dest, result) = NUL
        /\ (/\ ~record.null
            /\ type_name \in PureAutoTypes
            /\ capacity >= Len(ExpectedText(type_name, record.val, prefix_arg)) + 1)
           => result = Len(ExpectedText(type_name, record.val, prefix_arg))

\* C1 witness: a nested record rendered into a buffer that is exactly one byte
\* longer than its output
C1_Witness ==
    /\ RenderedRecord
    /\ type_name = "Line"
    /\ result > 0
    /\ capacity = result + 1
    /\ Peek(dest, result) = NUL

\* C2: on success the buffer is exactly the key=value tokens of the scalar
\* leaves in depth-first declaration order, one space between consecutive
\* tokens at every nesting level, no leading and no trailing space, as many
\* tokens as the record has scalar leaves. The key of a token is the name the
\* stringifier builds for the leaf.
C2_OutputGrammar ==
    (RenderedRecord /\ result >= 0) =>
        /\ Terminated(dest)
        /\ CString(dest) = ExpectedText(type_name, record.val, prefix_arg)
        /\ Len(Tokens(type_name, record.val, prefix_arg)) = ScalarLeafCount(type_name)
        /\ Head(CString(dest)) # " "
        /\ CString(dest)[Len(CString(dest))] # " "

\* C2 witness: a record with two nested records and a scalar rendered in full
C2_Witness ==
    /\ RenderedRecord
    /\ type_name = "Line"
    /\ result >= 0
    /\ Len(Tokens(type_name, record.val, prefix_arg)) = 5
    /\ CString(dest) = ExpectedText(type_name, record.val, prefix_arg)

\* field names joined by dots
RECURSIVE JoinDots(_)
JoinDots(segs) ==
    IF Len(segs) = 1 THEN Stringify(segs[1])
    ELSE Stringify(segs[1]) \o <<".">> \o JoinDots(Tail(segs))

\* the key of the prefix law: the bare field path, behind "prefix." when the
\* prefix is neither NULL nor empty
LawKey(prefix, segs) ==
    IF ~prefix.null /\ prefix.val # <<>>
    THEN prefix.val \o <<".">> \o JoinDots(segs)
    ELSE JoinDots(segs)

\* render(R, "") with each token's key replaced by its LawKey under the prefix
LawText(T, v, prefix) ==
    LET leaves == Leaves(T, v) IN
    JoinSp([k \in 1..Len(leaves) |->
               LawKey(prefix, leaves[k].segs) \o <<"=">> \o leaves[k].text])

\* what the stringifier of T leaves in BUFFER_SIZE bytes for v under the empty prefix
EmptyPrefixRendering(T, v) ==
    CString(to_str(T, Fresh(BUFFER_SIZE), 0, BUFFER_SIZE, Ptr(v), Ptr(<<>>)).mem)

\* every key of the record under the prefix fits field_full_name with its terminator
KeysFit(T, v, prefix) ==
    \A k \in 1..Len(Leaves(T, v)) :
        Len(LawKey(prefix, Leaves(T, v)[k].segs)) <= FIELD_FULL_NAME_SIZE - 1

\* C3 as stated: under every prefix a successful rendering is the rendering
\* under the empty prefix with every key replaced by prefix, '.', key (the bare
\* key when the prefix is NULL or empty).
C3_PrefixLaw_EveryPrefix ==
    (RenderedRecord /\ result >= 0) =>
        /\ EmptyPrefixRendering(type_name, record.val)
             = LawText(type_name, record.val, Ptr(<<>>))
        /\ CString(dest) = LawText(type_name, record.val, prefix_arg)

\* C3 amended: the prefix law holds for every prefix under which every key of
\* the record, prefix and dots included, is at most 255 bytes long.
C3_PrefixLaw_WhenKeysFit ==
    (RenderedRecord /\ result >= 0 /\ KeysFit(type_name, record.val, prefix_arg)) =>
        /\ EmptyPrefixRendering(type_name, record.val)
             = LawText(type_name, record.val, Ptr(<<>>))
        /\ CString(dest) = LawText(type_name, record.val, prefix_arg)

\* C3 witness: a record with nested records rendered under a non-empty prefix,
\* and a record rendered under the longest prefix that its keys fit with
C3_Witness ==
    /\ RenderedRecord
    /\ result >= 0
    /\ KeysFit(type_name, record.val, prefix_arg)
    /\ \/ type_name = "Line" /\ prefix_arg = Ptr(str_myline) /\ result = 89
       \/ type_name = "Point" /\ prefix_arg = Ptr(FittingPrefix)

\* C4: after a call of a generated stringifier on a record with capacity >= 1
\* the buffer holds a terminator at an index below the capacity, whether the
\* call succeeded or failed, at whatever depth; and when the full output with
\* its terminator does not fit the capacity the call returns -1.
C4_AlwaysTerminated ==
    (RenderedRecord /\ capacity >= 1) =>
        /\ Len(dest) = capacity
        /\ Terminated(dest)
        /\ Len(ExpectedText(type_name, record.val, prefix_arg)) + 1 > capacity
           => result = -1

\* C4 witness: a failure three levels deep that leaves a terminated buffer with
\* the earlier output in it, and a failure in the very first field
C4_Witness ==
    /\ RenderedRecord
    /\ capacity >= 1
    /\ result = -1
    /\ Terminated(dest)
    /\ \/ type_name = "Route" /\ capacity = MaxCap
       \/ type_name = "Product" /\ Strlen(dest) > 0

\* the output of top-level field i of a record: its token, or the whole output
\* of the nested stringifier under the extended prefix
TopFieldText(T, v, prefix, i) ==
    LET f == FIELDS_XMACRO_LIST(T)[i] IN
    IF f.ckind = PRIMITIVE
    THEN field_full_name(prefix, f.cname) \o <<"=">>
         \o Printf(f.primitive_format_spec, v[f.cname])
    ELSE ExpectedText(f.struct_type_token, v[f.cname],
                      Ptr(field_full_name(prefix, f.cname)))

\* the output of the first j top-level fields, each followed by a separator
RECURSIVE Partial(_, _, _, _)
Partial(T, v, prefix, j) ==
    IF j = 0 THEN <<>>
    ELSE Partial(T, v, prefix, j - 1) \o TopFieldText(T, v, prefix, j) \o <<" ">>

\* the number of leading top-level fields whose output, terminator included,
\* fits the capacity
FieldsRendered(T, v, prefix, size) ==
    LET fit == {j \in 0..Len(FIELDS_XMACRO_LIST(T)) :
                   \A k \in 1..j : Len(Partial(T, v, prefix, k)) <= size}
    IN  CHOOSE j \in fit : \A k \in fit : k <= j

\* no hand-written stringifier below the record fails for its own temp buffer
HandWrittenFits(T, v, prefix) ==
    \A i \in 1..Len(FIELDS_XMACRO_LIST(T)) :
        LET f == FIELDS_XMACRO_LIST(T)[i] IN
        f.struct_type_token \in CustomTypes =>
            SpecialFeature_to_str(Fresh(BUFFER_SIZE), 0, BUFFER_SIZE, Ptr(v[f.cname]),
                                  Ptr(field_full_name(prefix, f.cname))).ret >= 0

\* C5 as stated: a call that fails for capacity leaves no partial result: the
\* buffer holds nothing of the fields rendered before the one that did not fit.
C5_NoPartialResult ==
    (RenderedRecord /\ capacity >= 1 /\ result = -1) => CString(dest) = <<>>

\* C5 amended: a call that fails for capacity returns -1 and renders no later
\* field, but the buffer keeps, terminated, the output of every top-level field
\* rendered before the one that did not fit, each followed by its separator
\* (cut to capacity - 1 bytes); only the output of the failing top-level field,
\* with whatever a nested stringifier wrote before failing, is cut off.
C5_PartialOutputKept ==
    (/\ RenderedRecord
     /\ capacity >= 1
     /\ result = -1
     /\ HandWrittenFits(type_name, record.val, prefix_arg))
    => LET j == FieldsRendered(type_name, record.val, prefix_arg, capacity) IN
       /\ j < Len(FIELDS_XMACRO_LIST(type_name))
       /\ Terminated(dest)
       /\ CString(dest) = Truncate(Partial(type_name, record.val, prefix_arg, j), capacity)

\* C5 witness: the second nested record of a Line does not fit; the output of
\* the first one and the separator stay in the buffer
C5_Witness ==
    /\ RenderedRecord
    /\ type_name = "Line"
    /\ result = -1
    /\ FieldsRendered(type_name, record.val, prefix_arg, capacity) = 1
    /\ CString(dest) = Partial(type_name, record.val, prefix_arg, 1)

C7_CapacityMonotone ==
    (op = "to_str" /\ outcome = "returned" /\ result >= 0) =>
        \A c2 \in Capacities \cup {result + 1} :
            c2 >= result + 1 =>
                LET r == DEFINE_TO_STR_INTERNAL(type_name, Fresh(c2), 0, c2, record,
                                                prefix_arg)
                IN  /\ r.ret = result
                    /\ SubSeq(r.mem, 1, result) = SubSeq(dest, 1, result)

\* C7 witness: a success in a buffer with room to spare, which capacity
\* result + 1 must reproduce
C7_Witness ==
    /\ RenderedRecord
    /\ type_name = "Line"
    /\ result > 0
    /\ capacity = BUFFER_SIZE

\* C8: a call with a NULL record and capacity >= 1 returns 0 and leaves
\* buffer[0] = '\0', under every prefix, without reading through the record.
C8_NullRecord ==
    (op # "none" /\ record.null /\ capacity >= 1) =>
        /\ outcome = "returned"
        /\ result = 0
        /\ Peek(dest, 0) = NUL

\* C8 witness: scenario 4, a NULL record and 16 bytes, under a prefix
C8_Witness ==
    /\ op = "to_str"
    /\ record.null
    /\ capacity = 16
    /\ prefix_arg = Ptr(str_mypoint)
    /\ result = 0
    /\ Peek(dest, 0) = NUL

\* the index of the field of T whose type has a hand-written stringifier
CustomFieldIndex(T) ==
    CHOOSE i \in 1..Len(FIELDS_XMACRO_LIST(T)) :
        FIELDS_XMACRO_LIST(T)[i].struct_type_token \in CustomTypes

\* the output of the top-level fields after field i, each behind a separator
RECURSIVE Rest(_, _, _, _)
Rest(T, v, prefix, i) ==
    IF i >= Len(FIELDS_XMACRO_LIST(T)) THEN <<>>
    ELSE <<" ">> \o TopFieldText(T, v, prefix, i + 1) \o Rest(T, v, prefix, i + 1)

---------------------------------------------------------------------------
(* Claims about the default formatter *)

\* a call of format_logfmt on a message and pairs none of which has a NULL key
\* or value, with the allocation granted
FormattedPairs ==
    /\ op = "format_logfmt"
    /\ fmt_outcome # "null"
    /\ ~message.null
    /\ \A i \in 1..Len(kv_pairs) : Rendered(kv_pairs[i])

\* the token key="escaped value" of a pair
LogfmtToken(pair) ==
    pair.key.val \o <<"=", "\"">> \o Escape(pair.value.val) \o <<"\"">>

\* the tokens of a pair list in list order, single spaces between them
LogfmtTokens(pairs) == JoinSp([i \in 1..Len(pairs) |-> LogfmtToken(pairs[i])])

\* C10: for a message and pairs with non-NULL keys and values format_logfmt
\* returns the message verbatim, then a single space (there only if count > 0
\* and the message is non-empty), then one token key="escaped value" per pair
\* in list order, single spaces between them, where escaping replaces '"' by
\* '\"' and '\' by '\\' and copies every other byte.
C10_FormatterResult ==
    FormattedPairs =>
        /\ fmt_outcome = "returned"
        /\ \E sep \in {<<>>, <<" ">>} :
              /\ sep = <<" ">> => (Len(kv_pairs) > 0 /\ message.val # <<>>)
              /\ written = message.val \o sep \o LogfmtTokens(kv_pairs)

\* what C10 says, as far as the string built goes: it holds of every call,
\* also of those that store past the allocation
C10_StringBuilt ==
    FormattedPairs =>
        \E sep \in {<<>>, <<" ">>} :
            /\ sep = <<" ">> => (Len(kv_pairs) > 0 /\ message.val # <<>>)
            /\ written = message.val \o sep \o LogfmtTokens(kv_pairs)

\* the call stored past the end of its allocation
StoredPastAllocation == op = "format_logfmt" /\ Len(written) + 1 > allocated

\* a call on pairs with non-NULL keys and values whose escaped values did not
\* fit the allocation
C10_Witness ==
    /\ FormattedPairs
    /\ Len(kv_pairs) > 0
    /\ StoredPastAllocation
    /\ fmt_outcome = "undefined"

\* a call of format_logfmt, allocation granted, on a message that ends in a
\* space and at least one pair, every pair with a key and a value
TrailingSpaceCall ==
    /\ FormattedPairs
    /\ Len(kv_pairs) > 0
    /\ message.val # <<>>
    /\ message.val[Len(message.val)] = " "

\* C19 as stated: when the message ends in a space and count > 0, the string
\* has two spaces between the message text and the first token: the message's
\* own and one the formatter adds.
C19_TwoSpaces ==
    TrailingSpaceCall =>
        written = message.val \o <<" ">> \o LogfmtTokens(kv_pairs)

\* C19 as amended: when the message ends in a space and count > 0, the
\* formatter adds no space: the first token follows the message's own trailing
\* space directly, one space between the message text and the first token.
C19_OneSpace ==
    TrailingSpaceCall =>
        written = message.val \o LogfmtTokens(kv_pairs)

C19_Witness ==
    /\ TrailingSpaceCall
    /\ message.val = <<"m", " ">>
    /\ written = <<"m", " ", "k", "=", "\"", "1", "\"">>

\* C20: for every message and pair list the size format_logfmt allocates is at
\* least the number of bytes it stores, terminator included.
C20_WithinAllocation ==
    (op = "format_logfmt" /\ fmt_outcome # "null") =>
        Len(written) + 1 <= allocated

\* an empty message and one pair whose value holds two bytes to escape: the
\* string and its terminator take one byte more than was allocated
C20_Witness ==
    /\ op = "format_logfmt"
    /\ message = Ptr(<<>>)
    /\ kv_pairs = <<[key |-> Ptr(<<"k">>), value |-> Ptr(<<"\\", "\"">>)]>>
    /\ allocated = 8
    /\ Len(written) + 1 = 9

---------------------------------------------------------------------------
(* Claims about the logging pipeline *)

\* the stream a LOG_ERRORR call resolves: the configured default, else stderr
ResolvedStream ==
    IF g_default_log_stream.null THEN stderr ELSE g_default_log_stream.val

\* the other stream
OtherStream == CHOOSE s \in Streams : s # ResolvedStream

\* the user message of the latest call as its caller wrote it: the format
\* rendered with the arguments that follow it in the call
RenderedUserMessage == Printf(call.user_fmt, call.va_args)

\* one token per field of a Point in declaration order, each value rendered
\* with the field's format
PointTokens(p) ==
    <<"x", "=", "\"">> \o IntToDec(p.x) \o <<"\"", " ", "y", "=", "\"">>
    \o IntToDec(p.y) \o <<"\"">>

\* a LOG_ERRORR call on the Point {1, 2}, a declared record type with its
\* extractor listed in the dispatch macro, on a pipeline initialised with the
\* default formatter and a sink, every allocation granted, the message short
\* and rendered without failure
EndToEndCall ==
    /\ op = "LOG_ERRORR"
    /\ dispatch_macro = "generic"
    /\ call.error_details_ptr = point_ptr
    /\ g_current_formatter = Ptr("format_logfmt")
    /\ ~g_current_sink.null
    /\ call.fails = {}
    /\ ~call.render_fails
    /\ Len(RenderedUserMessage) < USER_MESSAGE_BUFFER_SIZE

\* C11: on a pipeline initialised with the default formatter and a sink,
\* LOG_ERRORR on a non-null record of a declared record type hands the sink
\* exactly one line: the rendered user message followed by one key="value"
\* token per scalar field of the record in declaration order (a Point {1, 2}
\* with "bad thing %d", 7 gives bad thing 7 x="1" y="2").
C11_EndToEnd ==
    EndToEndCall =>
        sink_log = << RenderedUserMessage \o PairSeparator(RenderedUserMessage)
                      \o PointTokens(call.error_details_ptr.val) >>

\* the call of the example: the sink got one line, with the pair of the
\* unknown-type extractor in place of the fields of the Point
C11_Witness ==
    /\ EndToEndCall
    /\ call.user_fmt = fmt_bad_thing
    /\ call.fn_args = 7
    /\ Len(sink_log) = 1
    /\ dispatched.num_pairs = 1
    /\ dispatched.pairs.val[1].key = Ptr(str_unknown_error_type)

\* the three globals are what the latest init call was given, the default
\* stream replaced by stderr when it was given NULL; all unset before the
\* first init call
GlobalsAsInitialised ==
    IF last_init = NULL
    THEN g_current_formatter = NULL /\ g_current_sink = NULL /\ g_default_log_stream = NULL
    ELSE /\ g_current_formatter = last_init.val.formatter
         /\ g_current_sink = last_init.val.sink
         /\ g_default_log_stream =
                IF last_init.val.default_stream = NULL
                THEN Ptr(stderr)
                ELSE last_init.val.default_stream

\* C12: the three globals are unset before the first init call; after any
\* sequence of init and LOG_ERRORR calls they equal the arguments of the most
\* recent init call, the default stream replaced by standard error when that
\* call passed NULL; a LOG_ERRORR call changes none of the three.
C12_LoggerConfiguration ==
    /\ []GlobalsAsInitialised
    /\ [][op' = "LOG_ERRORR" =>
            /\ g_current_formatter' = g_current_formatter
            /\ g_current_sink' = g_current_sink
            /\ g_default_log_stream' = g_default_log_stream]_vars

\* a LOG_ERRORR call made after an init call that passed a NULL stream, and
\* with an init call before it that set other values
C12_Witness ==
    /\ op = "LOG_ERRORR"
    /\ Len(call_log) = 2
    /\ last_init # NULL
    /\ last_init.val.default_stream = NULL
    /\ last_init.val.sink = NULL
    /\ g_default_log_stream = Ptr(stderr)
    /\ streams["logfile"] # <<>>

\* the steps of the latest operation of the kinds given
StepsOf(kinds) == SelectSeq(trace, LAMBDA e : e.ev \in kinds)

\* a LOG_ERRORR call made while the formatter or the sink is unset
UninitialisedCall ==
    /\ op = "LOG_ERRORR"
    /\ (g_current_formatter = NULL \/ g_current_sink = NULL)

\* C13: a LOG_ERRORR call made while the formatter or the sink is unset writes
\* exactly one line, the not-initialized marker followed by the rendered user
\* message, to the resolved stream (the configured default, else stderr) and
\* stops: the dispatcher, the formatter and the sink are not invoked and
\* nothing is allocated.
C13_Uninitialised ==
    UninitialisedCall =>
        /\ streams[ResolvedStream] =
               str_not_initialized \o RenderedUserMessage \o <<"\n">>
        /\ streams[OtherStream] = <<>>
        /\ StepsOf({"dispatch", "formatter", "formatter_return", "sink",
                    "malloc", "malloc_failed", "free", "fflush"}) = <<>>
        /\ sink_log = <<>>
        /\ heap = {}
        /\ dispatched.pairs = NULL
        /\ dispatched.final_log_message = NULL

\* a call on a Point with the sink unset by a re-initialisation that set the
\* formatter and a log file, and a call on a pipeline never initialised
C13_Witness ==
    /\ UninitialisedCall
    /\ call.error_details_ptr = point_ptr
    /\ call.user_fmt = fmt_bad_thing
    /\ call.fn_args = 9
    /\ \/ /\ last_init # NULL
          /\ g_current_formatter = Ptr("format_logfmt")
          /\ g_current_sink = NULL
          /\ streams["logfile"] = str_not_initialized
                                  \o <<"b", "a", "d", " ", "t", "h", "i", "n", "g", " ", "7", "\n">>
       \/ /\ last_init = NULL
          /\ streams[stderr] = str_not_initialized
                               \o <<"b", "a", "d", " ", "t", "h", "i", "n", "g", " ", "7", "\n">>

str_formatter_failed == <<"[", "L", "O", "G", "_", "E", "R", "R", "O", "R", "R", " ", "W", "a", "r",
      "n", "i", "n", "g", "]", " ", "F", "o", "r", "m", "a", "t", "t", "e",
      "r", " ", "f", "a", "i", "l", "e", "d", ".", " ", "R", "a", "w", " ",
      "u", "s", "e", "r", " ", "m", "e", "s", "s", "a", "g", "e", ":", " ">>
str_parsing_failed == <<"[", "L", "O", "G", "_", "E", "R", "R", "O", "R", "R", " ", "W", "a", "r",
      "n", "i", "n", "g", "]", " ", "P", "a", "r", "s", "i", "n", "g", " ",
      "o", "f", " ", "e", "r", "r", "o", "r", " ", "d", "e", "t", "a", "i",
      "l", "s", " ", "m", "i", "g", "h", "t", " ", "h", "a", "v", "e", " ",
      "a", "l", "s", "o", " ", "f", "a", "i", "l", "e", "d", " ", "f", "o",
      "r", " ", "p", "t", "r", " ">>

\* a LOG_ERRORR call whose formatter was invoked and returned NULL
FormatterFailed ==
    /\ op = "LOG_ERRORR"
    /\ dispatched.configured
    /\ dispatched.final_log_message = NULL

\* the record pointer was non-null and the dispatcher produced no pairs
NoPairsFromRecord ==
    call.error_details_ptr # NULL /\ dispatched.num_pairs = 0

\* C14: when the installed formatter returns NULL, LOG_ERRORR writes a warning
\* line carrying the user message it rendered to the resolved stream, writes
\* the 'parsing might have failed' note as well exactly when the record
\* pointer was non-null and the dispatcher produced no pairs (count 0), never
\* invokes the sink, and returns.
C14_FormatterFailure ==
    FormatterFailed =>
        /\ streams[ResolvedStream] =
               str_formatter_failed \o dispatched.user_message.val \o <<"\n">>
               \o (IF NoPairsFromRecord
                   THEN str_parsing_failed \o call.error_details_ptr.addr \o <<".", "\n">>
                   ELSE <<>>)
        /\ streams[OtherStream] = <<>>
        /\ StepsOf({"sink", "fflush"}) = <<>>
        /\ sink_log = <<>>
        /\ dispatched.end = "returned"

\* the formatter failed after the dispatcher had produced a pair for a
\* non-null record: the warning is written without the note
C14_Witness ==
    /\ FormatterFailed
    /\ call.error_details_ptr = point_ptr
    /\ dispatched.num_pairs = 1
    /\ call.user_fmt = fmt_m_space
    /\ streams[ResolvedStream] = str_formatter_failed \o <<"m", " ", "\n">>

\* the formatter failed after the dispatcher had failed too: the note follows
\* the warning
C14_WitnessNote ==
    /\ FormatterFailed
    /\ NoPairsFromRecord
    /\ Len(StepsOf({"fprintf"})) = 2

str_unhandled_type_at_address == <<"u", "n", "h", "a", "n", "d", "l", "e", "d", "_", "t", "y", "p", "e", "_",
      "a", "t", "_", "a", "d", "d", "r", "e", "s", "s", "_">>
str_not_defined_by_user == <<"L", "O", "G", "_", "E", "R", "R", "O", "R", "_", "D", "I", "S", "P", "A",
      "T", "C", "H", "_", "T", "O", "_", "P", "A", "R", "S", "E", "R", " ",
      "n", "o", "t", " ", "d", "e", "f", "i", "n", "e", "d", " ", "b", "y",
      " ", "u", "s", "e", "r", " ", "f", "o", "r", " ", "t", "y", "p", "e",
      " ", "a", "t", " ">>

\* a use of the dispatch macro on an expression whose static type has no
\* extractor registered
UnregisteredDispatch ==
    /\ op = "dispatch"
    /\ call.static_type \notin RegisteredTypes

\* the result of the fallback: one pair with the key and the value given for a
\* non-null pointer, a NULL list and count 0 for a NULL pointer; NULL and
\* count 0, with nothing left allocated, when an allocation fails
FallbackResult(key, value) ==
    IF call.error_details_ptr = NULL
    THEN /\ dispatched.pairs = NULL
         /\ dispatched.num_pairs = 0
         /\ heap = {}
         /\ trace = <<>>
    ELSE IF StepsOf({"malloc_failed"}) = <<>>
    THEN /\ dispatched.pairs = Ptr(<<[key |-> Ptr(key), value |-> Ptr(value)]>>)
         /\ dispatched.num_pairs = 1
         /\ heap = {PairsBlock, KeyBlock(1), ValueBlock(1)}
         /\ freed_twice = {}
    ELSE /\ dispatched.pairs = NULL
         /\ dispatched.num_pairs = 0
         /\ heap = {}
         /\ freed_twice = {}

\* C15 as stated: when no extractor is registered for a record's static type,
\* dispatch yields for a non-null pointer exactly one pair, key
\* unknown_error_type and value unhandled_type_at_address_<address>, count 1;
\* for a NULL pointer a NULL list and count 0; on allocation failure NULL and
\* count 0, nothing leaked.
C15_UnknownTypeFallback ==
    UnregisteredDispatch =>
        FallbackResult(str_unknown_error_type,
                       str_unhandled_type_at_address \o call.error_details_ptr.addr)

\* C15 as amended: that result is the one of a dispatch macro defined by the
\* program with parse_unknown_error as its default; the dispatch macro slog.h
\* defines gives, for every static type, the same shape with the key
\* logging_error and the value "LOG_ERROR_DISPATCH_TO_PARSER not defined by
\* user for type at <address>".
C15_FallbackOfEitherDispatch ==
    /\ (UnregisteredDispatch /\ dispatch_macro = "generic") =>
           FallbackResult(str_unknown_error_type,
                          str_unhandled_type_at_address \o call.error_details_ptr.addr)
    /\ (op = "dispatch" /\ dispatch_macro = "placeholder") =>
           FallbackResult(str_logging_error,
                          str_not_defined_by_user \o call.error_details_ptr.addr)

\* the fallback of a program-defined dispatch ran out of memory at its third
\* allocation and released the first two
C15_Witness ==
    /\ UnregisteredDispatch
    /\ dispatch_macro = "generic"
    /\ call.error_details_ptr = opaque_ptr
    /\ Len(StepsOf({"malloc"})) = 2
    /\ Len(StepsOf({"free"})) = 2
    /\ dispatched.pairs = NULL

\* the LOG_ERRORR calls of the run made while formatter and sink were set and
\* whose formatter returned a line
DeliveredCalls ==
    SelectSeq(call_log, LAMBDA c : c.kind = "LOG_ERRORR" /\ c.configured
                                   /\ c.final_log_message # NULL)

\* the lines of those calls, in call order
DeliveredLines == [i \in 1..Len(DeliveredCalls) |-> DeliveredCalls[i].final_log_message.val]

\* this step appends the line and one newline to the stream and flushes it,
\* and leaves the other stream alone
SinkWrote(line, stream) ==
    /\ streams' = [streams EXCEPT ![stream] = streams[stream] \o line \o <<"\n">>]
    /\ flushed' = [flushed EXCEPT ![stream] = Len(streams[stream]) + Len(line) + 1]

\* C16: over any sequence of calls from one thread the sink is invoked at most
\* once per LOG_ERRORR call, exactly once for each call made while formatter
\* and sink are set and the formatter returned a line, and the lines reach the
\* sink in call order; the default sink writes each line followed by exactly
\* one newline and flushes, to standard error when given a NULL stream.
C16_SinkOrdering ==
    /\ [](sink_log = DeliveredLines)
    /\ [][(op' = "LOG_ERRORR" /\ Len(sink_log') > Len(sink_log)) =>
             SinkWrote(sink_log'[Len(sink_log')], ResolvedStream)]_vars
    /\ [][(op' = "sink_to_file_stream" /\ Len(call_log') > Len(call_log)) =>
             SinkWrote(call'.formatted_log,
                       IF call'.output_stream = NULL THEN stderr
                       ELSE call'.output_stream.val)]_vars

\* two calls delivered different lines, in call order, both flushed to the log
\* file
C16_Witness ==
    /\ Len(call_log) = 2
    /\ Len(sink_log) = 2
    /\ sink_log[1] = <<"m", " ">>
    /\ sink_log[2] # sink_log[1]
    /\ streams["logfile"] = sink_log[1] \o <<"\n">> \o sink_log[2] \o <<"\n">>
    /\ flushed["logfile"] = Len(streams["logfile"])

\* the default sink, called with a NULL stream, wrote to standard error
C16_WitnessNullStream ==
    /\ op = "sink_to_file_stream"
    /\ call.output_stream = NULL
    /\ streams[stderr] = <<"m", " ", "\n">>
    /\ flushed[stderr] = 3

\* the positions in the latest operation's steps of the steps of a kind on a
\* block
PositionsOf(ev, what) == {i \in 1..Len(trace) : trace[i].ev = ev /\ trace[i].what = what}

\* the positions of the steps of a kind
PositionsOfKind(ev) == {i \in 1..Len(trace) : trace[i].ev = ev}

\* the blocks the latest operation allocated
AllocatedBlocks == {trace[i].what : i \in PositionsOfKind("malloc")}

\* the blocks of the pair list the dispatcher returned: the array, and the key
\* and the value of each of its count elements
PairListBlocks ==
    IF dispatched.pairs = NULL THEN {}
    ELSE {PairsBlock} \cup {KeyBlock(k) : k \in 1..dispatched.num_pairs}
         \cup {ValueBlock(k) : k \in 1..dispatched.num_pairs}

\* C17: on every path of a LOG_ERRORR call (uninitialised, formatter failure,
\* success) the pair list obtained from the dispatcher is released exactly
\* once, with the key and the value of each of its count elements, and only
\* after the formatter has returned; the line the formatter returned is
\* released exactly once, after the sink has returned; when the call returns
\* nothing it allocated is live and nothing was freed twice.
C17_ResourceRelease ==
    op = "LOG_ERRORR" =>
        /\ heap = {}
        /\ freed_twice = {}
        /\ \A b \in AllocatedBlocks : Cardinality(PositionsOf("free", b)) = 1
        /\ \A b \in PairListBlocks :
              \A i \in PositionsOf("free", b) :
                 \E j \in PositionsOfKind("formatter_return") : j < i
        /\ dispatched.pairs # NULL => PairListBlocks \subseteq AllocatedBlocks
        /\ dispatched.final_log_message # NULL =>
              /\ "final_log_message" \in AllocatedBlocks
              /\ \A i \in PositionsOf("free", "final_log_message") :
                    \A j \in PositionsOfKind("sink") \cup PositionsOfKind("fflush") : j < i
              /\ PositionsOfKind("sink") # {}

\* a successful call on a non-null record: the array, the key, the value and
\* the line were allocated and released
C17_Witness ==
    /\ op = "LOG_ERRORR"
    /\ call.error_details_ptr = point_ptr
    /\ dispatched.num_pairs = 1
    /\ dispatched.final_log_message # NULL
    /\ Cardinality(AllocatedBlocks) = 4
    /\ Len(StepsOf({"free"})) = 4
    /\ heap = {}

str_vsnprintf_failed == <<"L", "O", "G", "_", "E", "R", "R", "O", "R", "R", ":", " ", "v", "s", "n",
      "p", "r", "i", "n", "t", "f", " ", "f", "a", "i", "l", "e", "d", " ",
      "f", "o", "r", " ", "u", "s", "e", "r", " ", "m", "e", "s", "s", "a",
      "g", "e", ".", " ", "O", "r", "i", "g", "i", "n", "a", "l", " ", "f",
      "m", "t", ":", " ">>

\* the first n bytes of a text, all of it when it is shorter
FirstBytes(text, n) == SubSeq(text, 1, Min(Len(text), n))

\* the most bytes a string in the intermediate buffer can have
MessageCap == USER_MESSAGE_BUFFER_SIZE - 1

\* the user message as step 2 of the latest call rendered it, uncut
FullRendering == Printf(call.user_fmt, call.fn_args)

\* a LOG_ERRORR call that rendered its user message into the buffer
RenderingCall == op = "LOG_ERRORR" /\ dispatched.configured

\* C18: the message passed to the formatter always fits the 1024-byte
\* intermediate buffer (a string of at most 1023 bytes); a rendered message
\* longer than 1023 bytes is cut to its first 1023 bytes, and the truncation
\* marker "...(msg_truncated)" is appended if space remains in the buffer;
\* when rendering fails the message is a diagnostic string that includes the
\* original format (as much of it as fits).
C18_MessageTruncation ==
    RenderingCall =>
        LET msg == dispatched.user_message.val
            cut == FirstBytes(FullRendering, MessageCap)
            space == USER_MESSAGE_BUFFER_SIZE - Len(cut) - 1
        IN
        /\ Len(msg) <= MessageCap
        /\ StepsOf({"formatter"}) =
               <<Event("formatter", g_current_formatter.val, msg)>>
        /\ call.render_fails =>
               msg = FirstBytes(str_vsnprintf_failed \o call.user_fmt, MessageCap)
        /\ (~call.render_fails /\ Len(FullRendering) <= MessageCap) =>
               msg = FullRendering
        /\ (~call.render_fails /\ Len(FullRendering) > MessageCap) =>
               msg = cut \o (IF Len(trunc_indicator) <= space
                             THEN trunc_indicator
                             ELSE <<>>)

\* a message longer than 1023 bytes was rendered and cut: the buffer is full
\* and holds no marker
C18_Witness ==
    /\ RenderingCall
    /\ ~call.render_fails
    /\ Len(FullRendering) > MessageCap
    /\ Len(dispatched.user_message.val) = MessageCap
    /\ dispatched.user_message.val = FirstBytes(call.user_fmt, MessageCap)

\* rendering failed for a long format: the diagnostic was cut to the buffer
C18_WitnessFailure ==
    /\ RenderingCall
    /\ call.render_fails
    /\ Len(call.user_fmt) > MessageCap
    /\ Len(dispatched.user_message.val) = MessageCap

====
